---- MODULE Spec2Model ----
(***************************************************************************)
(* The periodic analysis engine of api-observatory: the analytics service  *)
(* (continuousAnalysis: detectDuplicates, analyzeCacheOpportunities,       *)
(* detectAnomalies, run one after the other in one goroutine) and the      *)
(* cost-tracker service (aggregateCosts: calculateRealTimeCosts), both on  *)
(* a one-minute time.Ticker, the Redis keys they SET with a TTL, and the   *)
(* api_events channel; and the gateway that reads those keys: its GET      *)
(* handlers and handleWebSocket, one call per client connection, which     *)
(* sends the cost rollup as a snapshot and then forwards what is published *)
(* on api_events, with a ping on every tick of a 30-second ticker.         *)
(*                                                                         *)
(* Time is counted in ticker periods (one minute): the action Minute ages  *)
(* every key by one period and fires both tickers.                         *)
(***************************************************************************)
EXTENDS Integers, Sequences, FiniteSets, TLC

\* ---------------------------------------------------------------- bounds
\* Longest result set the store returns to one query.
MaxRows == 1
\* Number of jobs for whose query the store holds matching records in one
\* behaviour; the queries of the other jobs return no decodable row.
MaxFeeds == 1

\* ------------------------------------------------------ program constants
\* time.NewTicker(1 * time.Minute): the period, in minutes.
TickerPeriod == 1
\* redis.Set(..., 5*time.Minute) of the cost rollup, in minutes.
CostTTL == 5
\* redis.Set(..., 10*time.Minute) of the three analysis artifacts, in minutes.
AnalysisTTL == 10
\* A time.Ticker's channel holds one tick; further ticks are dropped.
TickerBuffer == 1

Tasks == {"analytics", "cost"}
Jobs == {"duplicates", "cache_recs", "anomalies", "costs"}

\* The calls of one cycle of each task's loop, in the order of the source.
JobsOf(t) ==
  IF t = "analytics" THEN <<"duplicates", "cache_recs", "anomalies">>
  ELSE <<"costs">>

TaskOf(j) == IF j = "costs" THEN "cost" ELSE "analytics"

\* The Redis key each job SETs.
KeyOf(j) ==
  CASE j = "duplicates" -> "analytics:duplicates"
    [] j = "cache_recs" -> "analytics:cache_recommendations"
    [] j = "anomalies"  -> "analytics:anomalies"
    [] OTHER            -> "costs:24h:by_provider"

Keys == {KeyOf(j) : j \in Jobs}

\* The TTL each job passes to SET.
TTLOf(j) == IF j = "costs" THEN CostTTL ELSE AnalysisTTL

\* ------------------------------------------------------------ store rows
\* The cost column of the rows the store returns.
CostValues == {1}

\* A row of a result set: rows.Scan either fails on it (ok = FALSE) or
\* decodes it; cost is the row's cost column.
Rows ==
  {[ok |-> FALSE, cost |-> 0]} \cup {[ok |-> TRUE, cost |-> c] : c \in CostValues}

RECURSIVE SeqsUpTo(_, _)
SeqsUpTo(S, n) ==
  IF n = 0 THEN {<<>>}
  ELSE LET shorter == SeqsUpTo(S, n - 1)
       IN shorter \cup {Append(s, x) : s \in {q \in shorter : Len(q) = n - 1}, x \in S}

ResultSets == SeqsUpTo(Rows, MaxRows)

\* What QueryContext hands back: an error, or a result set.
QueryErr == [err |-> TRUE, rows |-> <<>>]
QueryOutcomes == {QueryErr} \cup {[err |-> FALSE, rows |-> r] : r \in ResultSets}

\* for rows.Next() { if err := rows.Scan(...); err != nil { continue }; append }
RECURSIVE Decode(_)
Decode(rows) ==
  IF rows = <<>> THEN <<>>
  ELSE IF Head(rows).ok THEN <<Head(rows).cost>> \o Decode(Tail(rows))
       ELSE Decode(Tail(rows))

\* The rows of a result set that rows.Scan decodes.
Decodable(rows) == {i \in 1..Len(rows) : rows[i].ok}

RECURSIVE SumSeq(_)
SumSeq(s) == IF s = <<>> THEN 0 ELSE Head(s) + SumSeq(Tail(s))

\* The value a job marshals: the list of decoded rows; the cost rollup adds
\* the running total of the rows it appended.
Artifact(j, rows) ==
  LET items == Decode(rows)
  IN IF j = "costs" THEN [breakdown |-> items, total_cost |-> SumSeq(items)]
     ELSE [breakdown |-> items, total_cost |-> 0]

\* Mutant: the cost rollup guards its Set with len > 0, like the analysis jobs.
WritesArtifactNonEmpty(j, rows) == Len(Decode(rows)) > 0

\* Mutant: the analysis jobs Set without the len > 0 guard, like the cost rollup.
WritesArtifactAlways(j, rows) == TRUE

\* Whether the job reaches its redis.Set: the analysis jobs only with a
\* non-empty list, the cost rollup always.
WritesArtifact(j, rows) ==
  IF j = "costs" THEN TRUE ELSE Len(Decode(rows)) > 0

\* ----------------------------------------------------------------- state
VARIABLES
  cache,      \* Redis key -> [present, val, ttl]: ttl is the remaining minutes
  apiEvents,  \* the payloads published on channel api_events, oldest first
  pc,         \* task -> where its goroutine is
  tickC,      \* task -> ticks held by its ticker's channel
  feeds,      \* the jobs for whose query the store holds matching records
  running,    \* history: job -> runs of the job in progress
  last,       \* history: the job call that returned in the latest step (none
              \*          if that step was no return): whether its query
              \*          failed, how many of its rows Scan decoded, and
              \*          whether Redis answered the call's Set (if any)
  wrote,      \* history: key -> the value of its last successful SET and its age
  conns,      \* websocket connection -> the state of its handleWebSocket call
  reply,      \* history: the latest response of one of the gateway's GET handlers
  store,      \* the records of table api_requests, each with its age in hours
  emitted,    \* history: what each run of a job over the store emitted, oldest
              \*          first
  server      \* the ingestion Server: whether db and redis are set (not nil),
              \* and requestsProcessed

vars ==
  <<cache, apiEvents, pc, tickC, feeds, running, last, wrote, conns, reply,
    store, emitted, server>>

\* The Server of an ingestion service that reached both its database and
\* Redis when it started, before any request.
ConnectedServer == [db |-> TRUE, redis |-> TRUE, requestsProcessed |-> 0]

EmptyValue == [breakdown |-> <<>>, total_cost |-> 0]
Absent == [present |-> FALSE, val |-> EmptyValue, ttl |-> 0]

\* Mutant: SET ... KEEPTTL, which leaves the TTL of a key that exists as it is.
RedisSetKeepTTL(c, up, k, v, ttl) ==
  IF up
  THEN [c EXCEPT ![k] = [present |-> TRUE, val |-> v,
                         ttl |-> IF c[k].present THEN c[k].ttl ELSE ttl]]
  ELSE c

\* Mutant: a SET that fails leaves the key deleted.
RedisSetLossy(c, up, k, v, ttl) ==
  IF up THEN [c EXCEPT ![k] = [present |-> TRUE, val |-> v, ttl |-> ttl]]
  ELSE [c EXCEPT ![k] = Absent]

\* SET key value EX ttl on a Redis that answers; a Redis that does not
\* answer leaves the key as it is (the jobs ignore Set's result).
RedisSet(c, up, k, v, ttl) ==
  IF up THEN [c EXCEPT ![k] = [present |-> TRUE, val |-> v, ttl |-> ttl]]
  ELSE c

\* One minute of key expiry.
Expire(e) ==
  IF e.present /\ e.ttl > TickerPeriod
  THEN [e EXCEPT !.ttl = @ - TickerPeriod]
  ELSE Absent

\* GET key, then what the gateway's handler answers: the cached value, or
\* the empty default when GET returns redis.Nil or an error.
HandlerGet(c, up, k) ==
  IF up /\ c[k].present THEN [found |-> TRUE, body |-> c[k].val]
  ELSE [found |-> FALSE, body |-> EmptyValue]

QueryPc(j) == <<"query", j>>
TopPc == <<"top", "">>
WaitPc == <<"wait", "">>

NoCall == [job |-> "", err |-> FALSE, n |-> 0, up |-> TRUE]
NeverWrote == [val |-> EmptyValue, age |-> -1]

\* ------------------------------------------------- gateway: connections
\* Websocket connections the gateway serves in one behaviour.
MaxConns == 2
\* Notifications published on api_events in one behaviour.
MaxEvents == 2
\* Ticks of a connection's 30-second ticker in one behaviour.
MaxPings == 1
\* Ticks of a connection's ticker in one behaviour in which nothing is
\* published.
MaxIdleTicks == 3
\* Messages one client sends to the gateway in one behaviour.
MaxClientMsgs == 2

Conns == 1..MaxConns

\* A payload on api_events: obj tells whether json.Unmarshal into a
\* map[string]interface{} succeeds on it; id is its place in the order of
\* publication.
Payload(obj, id) == [obj |-> obj, id |-> id]

\* The payload null: json.Unmarshal of the JSON null into a map returns no
\* error and leaves the map nil, which conn.WriteJSON sends as null.
NullPayload(id) == [obj |-> TRUE, id |-> id, null |-> TRUE]

\* The messages conn.WriteJSON sends.
NoMsg == [type |-> "", data |-> EmptyValue, id |-> 0]
SnapshotMsg(body) == [type |-> "initial_data", data |-> body, id |-> 0]
EventMsg(p) == [type |-> "event", data |-> EmptyValue, id |-> p.id]
\* The ping of the ticker's k-th tick (the message itself is {"type":"ping"}).
PingMsg(k) == [type |-> "ping", data |-> EmptyValue, id |-> k]

\* conn, pubsub and ticker of one handleWebSocket call: not yet made, in use,
\* or released by the deferred Close / Stop.
NoResources == [socket |-> "none", pubsub |-> "none", ticker |-> "none"]

\* A connection before its request arrives.
\*   pc      where handleWebSocket is: "connecting" (before Upgrade returns),
\*           "upgraded", "wsnap" / "wmsg" / "wping" (inside conn.WriteJSON of
\*           the snapshot, a notification, a ping), "select", "closed"
\*           (returned), "rejected" (Upgrade failed)
\*   pending the message of the WriteJSON in progress
\*   sent    history: the messages written to the socket, oldest first
\*   subq    the payloads waiting on the subscription's channel
\*   arrived history: the payloads that reached the subscription, oldest
\*           first, each with whether the handler was in its loop by then
\*   active  whether Redis holds the subscription
\*   reader  the ReadMessage goroutine: "none", "reading", "done"
\*   pingC   ticks held by ticker.C
\*   tickAt  which tick of the ticker ticker.C holds (0: none)
\*   ticks   history: how often the connection's ticker has fired
\*   rcvd    history: the client messages conn.ReadMessage has returned
\*   res     the connection's resources
NoConn ==
  [pc |-> "connecting", pending |-> NoMsg, sent |-> <<>>, subq |-> <<>>,
   arrived |-> <<>>, active |-> FALSE, reader |-> "none", pingC |-> 0,
   tickAt |-> 0, ticks |-> 0, rcvd |-> 0, res |-> NoResources]

\* ------------------------------------------------ gateway: GET handlers
\* The handlers that read artifacts, and the keys each reads.
Handlers == {"costs", "duplicates", "cache_recommendations", "anomalies", "summary"}

KeysRead(h) ==
  CASE h = "costs"                 -> {"costs:24h:by_provider"}
    [] h = "duplicates"            -> {"analytics:duplicates"}
    [] h = "cache_recommendations" -> {"analytics:cache_recommendations"}
    [] h = "anomalies"             -> {"analytics:anomalies"}
    [] OTHER                       -> Keys

\* No response yet.
NoReply == [handler |-> "", status |-> 0, up |-> TRUE, body |-> <<>>]

Init ==
  /\ cache = [k \in Keys |-> Absent]
  /\ apiEvents = <<>>
  /\ pc = [t \in Tasks |-> TopPc]
  /\ tickC = [t \in Tasks |-> 0]
  /\ feeds \in {F \in SUBSET Jobs : Cardinality(F) = MaxFeeds}
  /\ running = [j \in Jobs |-> 0]
  /\ last = NoCall
  /\ wrote = [k \in Keys |-> NeverWrote]
  /\ conns = [c \in Conns |-> NoConn]
  /\ reply = NoReply
  /\ store = <<>>
  /\ emitted = <<>>
  /\ server = ConnectedServer

\* Mutant: every tick starts a cycle, also while the previous one is running.
CanStartOnEveryTick(t) ==
  \/ pc[t] = TopPc
  \/ tickC[t] > 0

\* The loop is at its top (the first iteration), or blocked in <-ticker.C
\* with a tick to receive.
CanStart(t) ==
  \/ pc[t] = TopPc
  \/ pc[t] = WaitPc /\ tickC[t] > 0

\* The loop enters a cycle: it calls the first job, which issues its query.
CycleStart(t) ==
  /\ CanStart(t)
  /\ tickC' = [tickC EXCEPT ![t] = IF pc[t] = TopPc THEN @ ELSE @ - 1]
  /\ pc' = [pc EXCEPT ![t] = QueryPc(JobsOf(t)[1])]
  /\ running' = [running EXCEPT ![JobsOf(t)[1]] = @ + 1]
  /\ last' = NoCall
  /\ UNCHANGED <<server, store, emitted, cache, apiEvents, feeds, wrote, conns, reply>>

\* Position of job j in its task's cycle.
IndexOf(j) ==
  CASE j = "cache_recs" -> 2
    [] j = "anomalies"  -> 3
    [] OTHER            -> 1

\* Mutant: a failed call ends the loop (as log.Fatalf would).
AfterPcFatal(j, r) ==
  LET t == TaskOf(j)
      i == IndexOf(j)
  IN IF r.err THEN <<"exited", "">>
     ELSE IF i < Len(JobsOf(t)) THEN QueryPc(JobsOf(t)[i + 1]) ELSE WaitPc

\* Where the loop goes when job j returns, whatever the call did: into the
\* next job's query, or to <-ticker.C after the last one.
AfterPc(j, r) ==
  LET t == TaskOf(j)
      i == IndexOf(j)
  IN IF i < Len(JobsOf(t)) THEN QueryPc(JobsOf(t)[i + 1]) ELSE WaitPc

\* Mutant: a failed query writes an empty artifact instead of returning.
SetCallsOnError(j, r) ==
  IF r.err \/ WritesArtifact(j, r.rows)
  THEN <<[key |-> KeyOf(j), val |-> Artifact(j, r.rows), ttl |-> TTLOf(j)]>>
  ELSE <<>>

\* Mutant: anomaly detection stores its list under the duplicates' key.
SetCallsSharedKey(j, r) ==
  IF r.err THEN <<>>
  ELSE IF WritesArtifact(j, r.rows)
       THEN <<[key |-> IF j = "anomalies" THEN "analytics:duplicates" ELSE KeyOf(j),
               val |-> Artifact(j, r.rows), ttl |-> TTLOf(j)]>>
       ELSE <<>>

\* Mutant: a run without results sets the cached list again, for another
\* ten minutes.
SetCallsRenewing(j, r) ==
  IF r.err THEN <<>>
  ELSE IF WritesArtifact(j, r.rows)
       THEN <<[key |-> KeyOf(j), val |-> Artifact(j, r.rows), ttl |-> TTLOf(j)]>>
       ELSE IF cache[KeyOf(j)].present
            THEN <<[key |-> KeyOf(j), val |-> cache[KeyOf(j)].val, ttl |-> TTLOf(j)]>>
            ELSE <<>>

\* The redis.Set calls of job j's function after its query returned r: none
\* after an error (the function returns), else the artifact when the job
\* reaches its Set.
SetCalls(j, r) ==
  IF r.err THEN <<>>
  ELSE IF WritesArtifact(j, r.rows)
       THEN <<[key |-> KeyOf(j), val |-> Artifact(j, r.rows), ttl |-> TTLOf(j)]>>
       ELSE <<>>

\* The redis.Publish calls of job j's function: the jobs hold none.
PublishCalls(j, r) == <<>>

RECURSIVE ApplySets(_, _, _)
ApplySets(c, up, calls) ==
  IF calls = <<>> THEN c
  ELSE ApplySets(RedisSet(c, up, Head(calls).key, Head(calls).val, Head(calls).ttl),
                 up, Tail(calls))

\* PUBLISH on a Redis that answers appends to the channel.
RedisPublish(ev, up, msgs) == IF up THEN ev \o msgs ELSE ev

\* The answers the store can give job j's query.
OutcomesFor(j) ==
  IF j \in feeds THEN QueryOutcomes
  ELSE {o \in QueryOutcomes : Decode(o.rows) = <<>>}

\* The store answers job j's query with r and the rest of the job's function
\* runs (Redis answering or not); the loop moves on to what follows the call.
QueryReturn(j, r, up) ==
  LET t == TaskOf(j)
      nxt == AfterPc(j, r)
      sets == SetCalls(j, r)
  IN /\ pc[t] = QueryPc(j)
     /\ cache' = ApplySets(cache, up, sets)
     /\ apiEvents' = RedisPublish(apiEvents, up, PublishCalls(j, r))
     /\ pc' = [pc EXCEPT ![t] = nxt]
     /\ running' =
          [k \in Jobs |->
             (IF k = j THEN running[k] - 1 ELSE running[k])
             + (IF nxt = QueryPc(k) THEN 1 ELSE 0)]
     /\ last' = [job |-> j, err |-> r.err, n |-> Cardinality(Decodable(r.rows)),
                  up |-> up]
     /\ wrote' =
          IF up /\ sets # <<>>
          THEN [wrote EXCEPT ![sets[1].key] = [val |-> sets[1].val, age |-> 0]]
          ELSE wrote
     /\ UNCHANGED <<server, store, emitted, tickC, feeds, conns, reply>>

\* Whether Redis answers the commands of the call: open when the call issues
\* one, of no matter (TRUE) when it issues none.
RedisReplies(j, r) ==
  IF SetCalls(j, r) = <<>> /\ PublishCalls(j, r) = <<>> THEN {TRUE} ELSE BOOLEAN

\* The store answers the pending query of job j, with any answer it can
\* give, while Redis answers or not.
StoreAnswers(j) ==
  /\ pc[TaskOf(j)] = QueryPc(j)
  /\ \E r \in OutcomesFor(j) : \E up \in RedisReplies(j, r) : QueryReturn(j, r, up)

\* The TTL of the job that owns key k.
TTLOfKey(k) == IF k = KeyOf("costs") THEN TTLOf("costs") ELSE TTLOf("duplicates")

\* Mutant: a ticker whose channel holds two ticks, so that a second tick
\* fired during a slow run is kept.
MinuteQueueing ==
  /\ cache' = [k \in Keys |-> Expire(cache[k])]
  /\ tickC' = [t \in Tasks |-> IF tickC[t] < TickerBuffer + 1 THEN tickC[t] + 1 ELSE tickC[t]]
  /\ wrote' =
       [k \in Keys |->
          IF wrote[k].age < 0 \/ wrote[k].age + TickerPeriod >= TTLOfKey(k)
          THEN NeverWrote
          ELSE [wrote[k] EXCEPT !.age = @ + TickerPeriod]]
  /\ last' = NoCall
  /\ UNCHANGED <<server, store, emitted, apiEvents, pc, feeds, running, conns, reply>>

\* One minute passes: every key ages, each ticker sends a tick unless its
\* channel is full.
Minute ==
  /\ cache' = [k \in Keys |-> Expire(cache[k])]
  /\ tickC' = [t \in Tasks |-> IF tickC[t] < TickerBuffer THEN tickC[t] + 1 ELSE tickC[t]]
  /\ wrote' =
       [k \in Keys |->
          IF wrote[k].age < 0 \/ wrote[k].age + TickerPeriod >= TTLOfKey(k)
          THEN NeverWrote
          ELSE [wrote[k] EXCEPT !.age = @ + TickerPeriod]]
  /\ last' = NoCall
  /\ UNCHANGED <<server, store, emitted, apiEvents, pc, feeds, running, conns, reply>>

\* getRedisData: GET key; on redis.Nil or an error the empty default of the
\* key, else the cached value.
getRedisData(c, up, k) == HandlerGet(c, up, k).body

\* HTTP 200, the status of a handler that never calls WriteHeader.
StatusOK == 200

\* Mutant: a handler that answers 500 when a GET of its fails.
HandlerReplyError(h, c, up) ==
  [handler |-> h,
   status |-> IF \E k \in KeysRead(h) : ~HandlerGet(c, up, k).found THEN 500 ELSE StatusOK,
   up |-> up,
   body |-> [k \in KeysRead(h) |-> getRedisData(c, up, k)]]

\* What handler h answers while the cache is c and Redis answers its GETs or
\* not: always 200, with the cached value of each key it reads, or the empty
\* default in its place.
HandlerReply(h, c, up) ==
  [handler |-> h, status |-> StatusOK, up |-> up,
   body |-> [k \in KeysRead(h) |-> getRedisData(c, up, k)]]

\* Mutant: a handler that stores the default it answers with when the key is
\* missing.
HandleGetCaching(h, up) ==
  /\ reply' = HandlerReply(h, cache, up)
  /\ cache' = [k \in Keys |->
                 IF k \in KeysRead(h) /\ up /\ ~cache[k].present
                 THEN [present |-> TRUE, val |-> EmptyValue, ttl |-> TTLOfKey(k)]
                 ELSE cache[k]]
  /\ UNCHANGED <<server, store, emitted, apiEvents, pc, tickC, feeds, running, last, wrote, conns>>

\* A GET request is served by handler h.
HandleGet(h, up) ==
  /\ reply' = HandlerReply(h, cache, up)
  /\ UNCHANGED <<server, store, emitted, cache, apiEvents, pc, tickC, feeds, running, last, wrote, conns>>

\* ------------------------------------------------ gateway: handleWebSocket
\* A deferred Close / Stop on one resource.
Release(r) ==
  CASE r = "live"     -> "released"
    [] r = "released" -> "released twice"
    [] OTHER          -> r

\* Mutant: a handler without defer pubsub.Close().
HandlerReturnsLeaking(cn) ==
  [cn EXCEPT !.pc = "closed", !.pending = NoMsg, !.subq = <<>>,
             !.pingC = 0, !.tickAt = 0,
             !.res = [socket |-> Release(@.socket),
                      pubsub |-> @.pubsub,
                      ticker |-> Release(@.ticker)]]

\* handleWebSocket returns: its deferred calls run (ticker.Stop if the ticker
\* was made, pubsub.Close, conn.Close); the subscription is gone with its
\* channel.
HandlerReturns(cn) ==
  [cn EXCEPT !.pc = "closed", !.pending = NoMsg, !.subq = <<>>,
             !.active = FALSE, !.pingC = 0, !.tickAt = 0,
             !.res = [socket |-> Release(@.socket),
                      pubsub |-> Release(@.pubsub),
                      ticker |-> Release(@.ticker)]]

\* upgrader.Upgrade answers the request of connection c; on success the
\* handler subscribes to api_events (Redis answering or not: Subscribe hands
\* back a handle either way).
Upgrade(c, ok, up) ==
  /\ conns[c].pc = "connecting"
  /\ conns' =
       [conns EXCEPT ![c] =
          IF ok
          THEN [@ EXCEPT !.pc = "upgraded", !.active = up,
                         !.res = [@ EXCEPT !.socket = "live", !.pubsub = "live"]]
          ELSE [@ EXCEPT !.pc = "rejected"]]
  /\ UNCHANGED <<server, store, emitted, cache, apiEvents, pc, tickC, feeds, running, last, wrote, reply>>

\* Mutant: a snapshot that carries the empty default whatever is cached.
getInitialDataEmpty(c, up) == SnapshotMsg(EmptyValue)

\* getInitialData: the cost rollup as getRedisData reads it, labelled
\* initial_data.
getInitialData(c, up) == SnapshotMsg(getRedisData(c, up, "costs:24h:by_provider"))

\* Mutant: the handler enters its loop without sending the snapshot.
SendSnapshotSkipped(c, up) ==
  /\ conns[c].pc = "upgraded"
  /\ conns' = [conns EXCEPT ![c] =
                 [@ EXCEPT !.pc = "select", !.reader = "reading",
                           !.res = [@ EXCEPT !.ticker = "live"]]]
  /\ UNCHANGED <<server, store, emitted, cache, apiEvents, pc, tickC, feeds, running, last, wrote, reply>>

\* The handler reads the snapshot and calls conn.WriteJSON with it.
SendSnapshot(c, up) ==
  /\ conns[c].pc = "upgraded"
  /\ conns' = [conns EXCEPT ![c] =
                 [@ EXCEPT !.pc = "wsnap", !.pending = getInitialData(cache, up)]]
  /\ UNCHANGED <<server, store, emitted, cache, apiEvents, pc, tickC, feeds, running, last, wrote, reply>>

\* Where a successful WriteJSON leaves the connection: after the snapshot the
\* reader goroutine and the ticker are started and the loop is entered; after
\* a notification or a ping the loop goes round.
AfterWrite(cn) ==
  IF cn.pc = "wsnap"
  THEN [cn EXCEPT !.pc = "select", !.sent = Append(@, cn.pending),
                  !.pending = NoMsg, !.reader = "reading",
                  !.res = [@ EXCEPT !.ticker = "live"]]
  ELSE [cn EXCEPT !.pc = "select", !.sent = Append(@, cn.pending),
                  !.pending = NoMsg]

\* Mutant: a write error on one connection ends every handler.
WriteReturnsClosingAll(c, ok) ==
  /\ conns[c].pc \in {"wsnap", "wmsg", "wping"}
  /\ conns' = IF ok THEN [conns EXCEPT ![c] = AfterWrite(@)]
              ELSE [d \in Conns |->
                      IF conns[d].pc \in {"connecting", "rejected", "closed"}
                      THEN conns[d] ELSE HandlerReturns(conns[d])]
  /\ UNCHANGED <<server, store, emitted, cache, apiEvents, pc, tickC, feeds, running, last, wrote, reply>>

\* Mutant: a write error in the loop is ignored and the loop goes round.
WriteReturnsCarryingOn(c, ok) ==
  /\ conns[c].pc \in {"wsnap", "wmsg", "wping"}
  /\ conns' = [conns EXCEPT ![c] =
                 IF ok THEN AfterWrite(@)
                 ELSE IF @.pc = "wsnap" THEN HandlerReturns(@)
                 ELSE [@ EXCEPT !.pc = "select", !.pending = NoMsg]]
  /\ UNCHANGED <<server, store, emitted, cache, apiEvents, pc, tickC, feeds, running, last, wrote, reply>>

\* The conn.WriteJSON in progress on connection c returns: nil, or an error,
\* on which the handler returns.
WriteReturns(c, ok) ==
  /\ conns[c].pc \in {"wsnap", "wmsg", "wping"}
  /\ conns' = [conns EXCEPT ![c] = IF ok THEN AfterWrite(@) ELSE HandlerReturns(@)]
  /\ UNCHANGED <<server, store, emitted, cache, apiEvents, pc, tickC, feeds, running, last, wrote, reply>>

\* Mutant: a read that fails only while the socket is open, as if closing the
\* socket left the pending ReadMessage blocked.
ReaderFailsWhileOpen(c) ==
  /\ conns[c].reader = "reading"
  /\ conns[c].res.socket = "live"
  /\ conns' = [conns EXCEPT ![c] = [@ EXCEPT !.reader = "done"]]
  /\ UNCHANGED <<server, store, emitted, cache, apiEvents, pc, tickC, feeds, running, last, wrote, reply>>

\* conn.ReadMessage returns an error (the client went away, or the socket was
\* closed): the reader goroutine returns and closes done.
ReaderFails(c) ==
  /\ conns[c].reader = "reading"
  /\ conns' = [conns EXCEPT ![c] = [@ EXCEPT !.reader = "done"]]
  /\ UNCHANGED <<server, store, emitted, cache, apiEvents, pc, tickC, feeds, running, last, wrote, reply>>

\* What a client can put in a data message: JSON, or bytes that are none.
ClientPayloads == {"json", "garbage"}

\* Mutant: a reader that gives up on a payload that is not JSON.
ClientSendsStrict(c, p) ==
  /\ conns[c].reader = "reading"
  /\ conns[c].res.socket = "live"
  /\ conns[c].rcvd < MaxClientMsgs
  /\ conns' = [conns EXCEPT ![c] =
                 IF p = "json" THEN [@ EXCEPT !.rcvd = @ + 1]
                 ELSE [@ EXCEPT !.rcvd = @ + 1, !.reader = "done"]]
  /\ UNCHANGED <<server, store, emitted, cache, apiEvents, pc, tickC, feeds, running, last, wrote, reply>>

\* Mutant: a reader that answers each data message with a WriteJSON of its
\* own.
ClientSendsAnswering(c, p) ==
  /\ conns[c].reader = "reading"
  /\ conns[c].res.socket = "live"
  /\ conns[c].rcvd < MaxClientMsgs
  /\ conns' = [conns EXCEPT ![c] = [@ EXCEPT !.rcvd = @ + 1, !.reader = "writing"]]
  /\ UNCHANGED <<server, store, emitted, cache, apiEvents, pc, tickC, feeds, running, last, wrote, reply>>

\* conn.ReadMessage returns a data message of the client with payload p: the
\* reader goroutine drops type and payload and calls ReadMessage again.
ClientSends(c, p) ==
  /\ conns[c].reader = "reading"
  /\ conns[c].res.socket = "live"
  /\ conns[c].rcvd < MaxClientMsgs
  /\ conns' = [conns EXCEPT ![c] = [@ EXCEPT !.rcvd = @ + 1]]
  /\ UNCHANGED <<server, store, emitted, cache, apiEvents, pc, tickC, feeds, running, last, wrote, reply>>

\* Mutant: a loop without the case <-done.
SelectDoneMissing(c) ==
  /\ conns[c].pc = "select"
  /\ conns[c].reader = "done"
  /\ UNCHANGED vars

\* select: case <-done.
SelectDone(c) ==
  /\ conns[c].pc = "select"
  /\ conns[c].reader = "done"
  /\ conns' = [conns EXCEPT ![c] = HandlerReturns(@)]
  /\ UNCHANGED <<server, store, emitted, cache, apiEvents, pc, tickC, feeds, running, last, wrote, reply>>

\* Mutant: the newest payload of the channel is taken first.
SelectMsgNewestFirst(c) ==
  /\ conns[c].pc = "select"
  /\ conns[c].subq # <<>>
  /\ LET n == Len(conns[c].subq)
         msg == conns[c].subq[n]
     IN conns' =
          [conns EXCEPT ![c] =
             IF msg.obj
             THEN [@ EXCEPT !.pc = "wmsg", !.pending = EventMsg(msg),
                            !.subq = SubSeq(@, 1, n - 1)]
             ELSE [@ EXCEPT !.subq = SubSeq(@, 1, n - 1)]]
  /\ UNCHANGED <<server, store, emitted, cache, apiEvents, pc, tickC, feeds, running, last, wrote, reply>>

\* select: case msg := <-ch. A payload that does not decode as an object is
\* skipped (continue); any other is handed to conn.WriteJSON.
SelectMsg(c) ==
  /\ conns[c].pc = "select"
  /\ conns[c].subq # <<>>
  /\ LET msg == Head(conns[c].subq)
     IN conns' =
          [conns EXCEPT ![c] =
             IF msg.obj
             THEN [@ EXCEPT !.pc = "wmsg", !.pending = EventMsg(msg),
                            !.subq = Tail(@)]
             ELSE [@ EXCEPT !.subq = Tail(@)]]
  /\ UNCHANGED <<server, store, emitted, cache, apiEvents, pc, tickC, feeds, running, last, wrote, reply>>

\* Mutant: the tick stays in ticker.C when the select receives it.
SelectTickKeepingTick(c) ==
  /\ conns[c].pc = "select"
  /\ conns[c].pingC > 0
  /\ conns' = [conns EXCEPT ![c] =
                 [@ EXCEPT !.pc = "wping", !.pending = PingMsg(conns[c].tickAt)]]
  /\ UNCHANGED <<server, store, emitted, cache, apiEvents, pc, tickC, feeds, running, last, wrote, reply>>

\* select: case <-ticker.C: a ping is handed to conn.WriteJSON.
SelectTick(c) ==
  /\ conns[c].pc = "select"
  /\ conns[c].pingC > 0
  /\ conns' = [conns EXCEPT ![c] =
                 [@ EXCEPT !.pc = "wping", !.pending = PingMsg(conns[c].tickAt),
                           !.pingC = @ - 1, !.tickAt = 0]]
  /\ UNCHANGED <<server, store, emitted, cache, apiEvents, pc, tickC, feeds, running, last, wrote, reply>>

\* Pings written to connection c so far.
PingsOf(cn) == Cardinality({i \in 1..Len(cn.sent) : cn.sent[i].type = "ping"})

\* The connection's 30-second ticker fires, for at most the n-th time: the
\* tick is held by ticker.C unless one is held already, in which case it is
\* dropped.
TickerFiresWithin(c, n) ==
  /\ conns[c].res.ticker = "live"
  /\ conns[c].ticks < n
  /\ conns' = [conns EXCEPT ![c] =
                 IF @.pingC < TickerBuffer
                 THEN [@ EXCEPT !.pingC = @ + 1, !.tickAt = conns[c].ticks + 1,
                                !.ticks = @ + 1]
                 ELSE [@ EXCEPT !.ticks = @ + 1]]
  /\ UNCHANGED <<server, store, emitted, cache, apiEvents, pc, tickC, feeds, running, last, wrote, reply>>

TickerFires(c) == TickerFiresWithin(c, MaxPings)

\* Redis hands a published payload to every subscription it holds.
Deliver(cn, p) ==
  IF cn.active
  THEN [cn EXCEPT !.subq = Append(@, p),
                  !.arrived = Append(@, [obj |-> p.obj, id |-> p.id,
                                         inLoop |-> cn.pc \in {"select", "wmsg", "wping"}])]
  ELSE cn

\* A payload is published on api_events (handleIngest's new_request event,
\* which is an object, or any other publisher's payload); a Redis that does
\* not answer drops it.
Publish(obj, up) ==
  /\ Len(apiEvents) < MaxEvents
  /\ LET p == Payload(obj, Len(apiEvents) + 1)
     IN /\ apiEvents' = RedisPublish(apiEvents, up, <<p>>)
        /\ conns' = IF up THEN [c \in Conns |-> Deliver(conns[c], p)] ELSE conns
  /\ UNCHANGED <<server, store, emitted, cache, pc, tickC, feeds, running, last, wrote, reply>>

\* The payload null is published on api_events.
PublishNull(up) ==
  /\ Len(apiEvents) < MaxEvents
  /\ LET p == NullPayload(Len(apiEvents) + 1)
     IN /\ apiEvents' = RedisPublish(apiEvents, up, <<p>>)
        /\ conns' = IF up THEN [c \in Conns |-> Deliver(conns[c], p)] ELSE conns
  /\ UNCHANGED <<server, store, emitted, cache, pc, tickC, feeds, running, last, wrote, reply>>

\* The connections of the gateway and the publishers of api_events.
ConnNext ==
  \/ \E c \in Conns : \E ok \in BOOLEAN : \E up \in BOOLEAN : Upgrade(c, ok, up)
  \/ \E c \in Conns : \E up \in BOOLEAN : SendSnapshot(c, up)
  \/ \E c \in Conns : \E ok \in BOOLEAN : WriteReturns(c, ok)
  \/ \E c \in Conns : ReaderFails(c)
  \/ \E c \in Conns : SelectDone(c)
  \/ \E c \in Conns : SelectMsg(c)
  \/ \E c \in Conns : SelectTick(c)
  \/ \E c \in Conns : TickerFires(c)
  \/ \E obj \in BOOLEAN : \E up \in BOOLEAN : Publish(obj, up)

\* The store holds records for the cost rollup, so that the snapshot can carry
\* a rollup with entries.
GatewayInit == Init /\ "costs" \in feeds

ConnSpec == GatewayInit /\ [][ConnNext]_vars

\* The connections, with publishers of objects, of null and of payloads that
\* do not decode.
PayloadNext ==
  \/ ConnNext
  \/ \E up \in BOOLEAN : PublishNull(up)

PayloadSpec == GatewayInit /\ [][PayloadNext]_vars

\* The gateway with the cost rollup whose artifact the snapshot carries.
GatewayNext ==
  \/ ConnNext
  \/ CycleStart("cost")
  \/ StoreAnswers("costs")

GatewaySpec == GatewayInit /\ [][GatewayNext]_vars

\* Redis comes to hold the subscription of connection c after Subscribe has
\* returned its handle: Subscribe does not wait for the confirmation of its
\* SUBSCRIBE command, and a handle whose command failed subscribes again when
\* the channel made by pubsub.Channel() reconnects.
SubscriptionActivates(c) ==
  /\ conns[c].res.pubsub = "live"
  /\ ~conns[c].active
  /\ conns' = [conns EXCEPT ![c] = [@ EXCEPT !.active = TRUE]]
  /\ UNCHANGED <<server, store, emitted, cache, apiEvents, pc, tickC, feeds, running, last, wrote, reply>>

\* The connections with subscriptions that can become active late.
GapNext ==
  \/ ConnNext
  \/ \E c \in Conns : SubscriptionActivates(c)

GapSpec == GatewayInit /\ [][GapNext]_vars

\* The connections with clients that send data messages.
ClientNext ==
  \/ ConnNext
  \/ \E c \in Conns : \E p \in ClientPayloads : ClientSends(c, p)

ClientSpec == GatewayInit /\ [][ClientNext]_vars

\* The connections while nothing is published and no client sends anything,
\* their tickers firing more often; a WriteJSON in progress returns and a case
\* of the select that stays ready is taken.
IdleNext ==
  \/ \E c \in Conns : \E ok \in BOOLEAN : \E up \in BOOLEAN : Upgrade(c, ok, up)
  \/ \E c \in Conns : \E up \in BOOLEAN : SendSnapshot(c, up)
  \/ \E c \in Conns : \E ok \in BOOLEAN : WriteReturns(c, ok)
  \/ \E c \in Conns : ReaderFails(c)
  \/ \E c \in Conns : SelectDone(c)
  \/ \E c \in Conns : SelectTick(c)
  \/ \E c \in Conns : TickerFiresWithin(c, MaxIdleTicks)

IdleSpec ==
  /\ GatewayInit /\ [][IdleNext]_vars
  /\ \A c \in Conns :
       /\ WF_vars(\E ok \in BOOLEAN : WriteReturns(c, ok))
       /\ WF_vars(SelectDone(c))
       /\ WF_vars(SelectTick(c))

\* The artifacts job j can write: what it marshals from the result sets on
\* which it reaches its Set.
ArtifactsOf(j) == {Artifact(j, rs) : rs \in {q \in ResultSets : WritesArtifact(j, q)}}

\* The job that owns key k.
JobOfKey(k) == CHOOSE j \in Jobs : KeyOf(j) = k

\* What key k can hold: nothing, or an artifact of its job, just written or
\* in the last minute of its TTL.
EntriesOf(k) ==
  {Absent} \cup
  {[present |-> TRUE, val |-> v, ttl |-> t] :
     v \in ArtifactsOf(JobOfKey(k)), t \in {TickerPeriod, TTLOfKey(k)}}

\* The gateway some time after the jobs started: the tasks wait for their
\* next tick, and the cache holds what the jobs can have left in it (an
\* analysis artifact only of a job whose query finds records).
FrameInit ==
  /\ cache \in {c \in [Keys -> UNION {EntriesOf(k) : k \in Keys}] :
                  \A k \in Keys : c[k] \in EntriesOf(k)}
  /\ feeds \in {F \in SUBSET Jobs : Cardinality(F) = MaxFeeds}
  /\ \A k \in Keys :
       cache[k].present =>
         \/ JobOfKey(k) \in feeds
         \/ k = KeyOf("costs") /\ cache[k].val = EmptyValue
  /\ apiEvents = <<>>
  /\ pc = [t \in Tasks |-> WaitPc]
  /\ tickC = [t \in Tasks |-> 0]
  /\ running = [j \in Jobs |-> 0]
  /\ last = NoCall
  /\ wrote = [k \in Keys |->
                IF cache[k].present
                THEN [val |-> cache[k].val, age |-> TTLOfKey(k) - cache[k].ttl]
                ELSE NeverWrote]
  /\ conns = [c \in Conns |-> NoConn]
  /\ reply = NoReply
  /\ store = <<>>
  /\ emitted = <<>>
  /\ server = ConnectedServer

\* The gateway's operations, with the publishers of api_events: the GET
\* handlers and every step of handleWebSocket for one connection (the
\* handlers of two connections share nothing but the Redis client; the reader
\* goroutine's reads, which touch the socket only, are left to ClientSpec).
FrameNext ==
  \/ \E h \in Handlers : \E up \in BOOLEAN : HandleGet(h, up)
  \/ \E ok \in BOOLEAN : \E up \in BOOLEAN : Upgrade(1, ok, up)
  \/ \E up \in BOOLEAN : SendSnapshot(1, up)
  \/ \E ok \in BOOLEAN : WriteReturns(1, ok)
  \/ ReaderFails(1)
  \/ SelectDone(1)
  \/ SelectMsg(1)
  \/ SelectTick(1)
  \/ TickerFires(1)
  \/ \E obj \in BOOLEAN : \E up \in BOOLEAN : Publish(obj, up)

FrameSpec == FrameInit /\ [][FrameNext]_vars

\* The connections alone, with what the Go runtime and the sockets see to: a
\* WriteJSON in progress returns (nil or an error), and a case of the select
\* that stays ready is taken (select picks among its ready cases at random,
\* so no ready case is passed over for ever). Whether a client ever goes
\* away, and whether anything is published, is left open.
StreamSpec ==
  /\ ConnSpec
  /\ \A c \in Conns :
       /\ WF_vars(\E ok \in BOOLEAN : WriteReturns(c, ok))
       /\ WF_vars(SelectDone(c))
       /\ WF_vars(SelectMsg(c))
       /\ WF_vars(SelectTick(c))

\* conn.ReadMessage of the reader goroutine on a socket the handler's deferred
\* conn.Close() has closed: the read returns an error.
ReadFailsOnClosedSocket(c) ==
  /\ conns[c].res.socket = "released"
  /\ ReaderFails(c)

\* The connections with the one thing the sockets see to for the reader: a
\* ReadMessage pending on a closed socket returns. Whether a write fails, a
\* client goes away or anything is published is left open.
ReaderSpec ==
  /\ ConnSpec
  /\ \A c \in Conns : WF_vars(ReadFailsOnClosedSocket(c))

Next ==
  \/ \E t \in Tasks : CycleStart(t)
  \/ \E j \in Jobs : StoreAnswers(j)
  \/ Minute

Spec == Init /\ [][Next]_vars

\* The jobs together with the gateway's GET handlers that read what they
\* wrote.
ReadNext ==
  \/ Next
  \/ \E h \in Handlers : \E up \in BOOLEAN : HandleGet(h, up)

ReadSpec == Init /\ [][ReadNext]_vars

\* ------------------------------------------------------------ fairness
\* The program's own steps always happen (a goroutine that can run does, time
\* passes); whether the store ever answers a query is left open.
FairSpec ==
  /\ Spec
  /\ WF_vars(Minute)
  /\ \A t \in Tasks : WF_vars(CycleStart(t))

\* The store answers every query in the end, with rows or with an error.
LiveSpec == FairSpec /\ \A j \in Jobs : WF_vars(StoreAnswers(j))

\* ------------------------------------------------ the jobs' computations
\* Records in the store of a behaviour in which every store is tried.
MaxRecords == 4
\* Runs of a job over one store in one behaviour.
MaxRuns == 2
\* Duplicate groups of the one large store, more than the query's LIMIT.
ManyGroups == 101

\* LIMIT 100 of the duplicates query.
DuplicatesLimit == 100
\* INTERVAL '1 hour' and INTERVAL '24 hours' of the queries' windows, in hours.
HourWindow == 1
DayWindow == 24

\* A row of api_requests: age is the number of whole hours since its time
\* (age < 1: time > NOW() - INTERVAL '1 hour'), meta stands for the text of
\* its metadata (0 for NULL, which COALESCE turns into ''), cost is in units
\* of 10^-6 (the column is DECIMAL(10, 6), and ingestion always stores one),
\* latency is the latency_ms column: <<>> for NULL, <<l>> for the value l.
BaseRecord ==
  [org |-> 1, provider |-> "openai", endpoint |-> 1, method |-> "GET", meta |-> 0,
   status |-> 200, age |-> 0, cost |-> 1, latency |-> <<100>>]

\* The non-decreasing sequences over 1..m of length at most n: each stands for
\* one collection of rows, whatever their order in the table.
RECURSIVE SortedSeqs(_, _)
SortedSeqs(m, n) ==
  IF n = 0 THEN {<<>>}
  ELSE LET shorter == SortedSeqs(m, n - 1)
       IN shorter \cup
          {Append(p[1], p[2]) :
             p \in {q \in {t \in shorter : Len(t) = n - 1} \X (1..m) :
                      q[1] = <<>> \/ q[1][Len(q[1])] <= q[2]}}

\* The stores of at most n rows drawn from the rows of the tuple U.
StoresOver(U, n) == {[i \in 1..Len(s) |-> U[s[i]]] : s \in SortedSeqs(Len(U), n)}

\* A set as a tuple, in some order.
RECURSIVE TupleOf(_)
TupleOf(S) ==
  IF S = {} THEN <<>>
  ELSE LET x == CHOOSE y \in S : TRUE IN <<x>> \o TupleOf(S \ {x})

\* SUM(cost) over the rows of recs that are in I and between lo and hi.
RECURSIVE SumCostBetween(_, _, _, _)
SumCostBetween(recs, I, lo, hi) ==
  IF lo > hi THEN 0
  ELSE IF lo = hi THEN (IF lo \in I THEN recs[lo].cost ELSE 0)
  ELSE LET mid == (lo + hi) \div 2
       IN SumCostBetween(recs, I, lo, mid) + SumCostBetween(recs, I, mid + 1, hi)

\* SUM(cost) over the rows I of recs.
SumCost(recs, I) == SumCostBetween(recs, I, 1, Len(recs))

\* A record whose cost column is NULL (the column admits it): SUM passes
\* over it, which adding 0 does as well.
WithoutCost(r) ==
  [f \in DOMAIN r \cup {"nocost"} |->
     IF f = "nocost" THEN TRUE ELSE IF f = "cost" THEN 0 ELSE r[f]]

HasCost(r) == "nocost" \notin DOMAIN r

\* SUM(cost) over the rows I of recs is not NULL: one of them has a cost.
Priced(recs, I) == \E i \in I : HasCost(recs[i])

\* ORDER BY cost DESC: every order of the rows G in which no row comes before
\* one of greater cost; rows of equal cost come in any order, and rows whose
\* cost is NULL come first (NULLS FIRST is the default of DESC).
RECURSIVE OrderByCostDesc(_)
OrderByCostDesc(G) ==
  IF G = {} THEN {<<>>}
  ELSE UNION {{<<g>> \o t : t \in OrderByCostDesc(G \ {g})} :
                g \in {x \in G :
                         \A y \in G : ~x.priced \/ (y.priced /\ y.cost <= x.cost)}}

\* LIMIT n.
Limit(rows, n) == SubSeq(rows, 1, IF Len(rows) < n THEN Len(rows) ELSE n)

\* MD5(endpoint || method || COALESCE(metadata::text, '')): the digest is
\* taken to tell apart what differs in one of the three.
RequestHash(r) == <<r.endpoint, r.method, r.meta>>

\* Mutant: HAVING COUNT(*) >= 1.
HavingDuplicatesAll(n) == n >= 1

\* HAVING COUNT(*) > 1.
HavingDuplicates(n) == n > 1

\* The rows the duplicates query can return over the records recs: the
\* records of the last hour grouped by organization_id, request_hash and
\* endpoint, the groups of more than one record, by total cost descending,
\* the first 100.
DuplicatesQuery(recs) ==
  LET recent == {i \in 1..Len(recs) : recs[i].age < HourWindow}
      keyOf(i) == <<recs[i].org, RequestHash(recs[i]), recs[i].endpoint>>
      members(k) == {i \in recent : keyOf(i) = k}
      groups ==
        {[org |-> k[1], hash |-> k[2], endpoint |-> k[3],
          count |-> Cardinality(members(k)), cost |-> SumCost(recs, members(k)),
          priced |-> Priced(recs, members(k))] :
           k \in {keyOf(i) : i \in recent}}
  IN {Limit(rows, DuplicatesLimit) :
        rows \in OrderByCostDesc({g \in groups : HavingDuplicates(g.count)})}

\* Mutant: the loop of detectDuplicates ends at the first row Scan fails on.
RECURSIVE DuplicateGroupsUntilError(_)
DuplicateGroupsUntilError(rows) ==
  IF rows = <<>> THEN <<>>
  ELSE IF ~Head(rows).priced THEN <<>>
  ELSE <<[endpoint |-> Head(rows).endpoint, count |-> Head(rows).count,
          cost |-> Head(rows).cost]>> \o DuplicateGroupsUntilError(Tail(rows))

\* The DuplicateGroup list detectDuplicates builds from the rows: Scan fails
\* on a row whose total_cost is NULL, which cannot be put into a float64, and
\* the loop goes on to the next row; every other row is appended.
RECURSIVE DuplicateGroups(_)
DuplicateGroups(rows) ==
  IF rows = <<>> THEN <<>>
  ELSE IF ~Head(rows).priced THEN DuplicateGroups(Tail(rows))
  ELSE <<[endpoint |-> Head(rows).endpoint, count |-> Head(rows).count,
          cost |-> Head(rows).cost]>> \o DuplicateGroups(Tail(rows))

\* A run of detectDuplicates over the store: the list it builds, marshalled
\* and Set only when it is not empty.
RunDuplicates ==
  /\ Len(emitted) < MaxRuns
  /\ \E rows \in DuplicatesQuery(store) :
       emitted' = Append(emitted,
         [job |-> "duplicates", written |-> Len(DuplicateGroups(rows)) > 0,
          list |-> DuplicateGroups(rows), rows |-> rows])
  /\ UNCHANGED <<server, cache, apiEvents, pc, tickC, feeds, running, last, wrote, conns,
                 reply, store>>

\* Rows that differ in one column of the grouping at a time, of either cost,
\* inside and outside the window.
DuplicateKinds ==
  <<BaseRecord,
    [BaseRecord EXCEPT !.method = "POST"],
    [BaseRecord EXCEPT !.meta = 1],
    [BaseRecord EXCEPT !.endpoint = 2],
    [BaseRecord EXCEPT !.org = 2]>>

DuplicateRows ==
  TupleOf({[DuplicateKinds[i] EXCEPT !.age = a, !.cost = c] :
             i \in 1..Len(DuplicateKinds), a \in {0, HourWindow}, c \in {1, 2}})

\* A store with ManyGroups pairs of equal requests, each pair to an endpoint
\* and at a cost of its own.
ManyDuplicates ==
  [i \in 1..(2 * ManyGroups) |->
     [BaseRecord EXCEPT !.endpoint = (i + 1) \div 2, !.cost = (i + 1) \div 2]]

TheInit(stores) ==
  /\ cache = [k \in Keys |-> Absent]
  /\ apiEvents = <<>>
  /\ pc = [t \in Tasks |-> TopPc]
  /\ tickC = [t \in Tasks |-> 0]
  /\ feeds = {}
  /\ running = [j \in Jobs |-> 0]
  /\ last = NoCall
  /\ wrote = [k \in Keys |-> NeverWrote]
  /\ conns = [c \in Conns |-> NoConn]
  /\ reply = NoReply
  /\ store \in stores
  /\ emitted = <<>>
  /\ server = ConnectedServer

\* detectDuplicates over every small store and the large one.
DupSpec ==
  /\ TheInit(StoresOver(DuplicateRows, MaxRecords) \cup {ManyDuplicates})
  /\ [][RunDuplicates]_vars

\* HAVING COUNT(*) > 10 and LIMIT 50 of the cache-opportunity query.
MinCalls == 10
CacheLimit == 50
\* int(avgLatency/1000)*10 of the recommendation's text.
MsPerSecond == 1000
TTLFactor == 10
\* status_code < 400.
ErrorStatus == 400
\* The calls to the endpoint of the one large store: the fewest with which
\* one repeated request is less than 0.005 percent of them.
ManyCalls == 20001

\* MD5(endpoint || COALESCE(metadata::text, '')).
EndpointHash(r) == <<r.endpoint, r.meta>>

\* ROUND(100.0 * (total - unique) / total, 2), in hundredths: numeric
\* division, rounded half away from zero.
HitRatio(total, unique) == (2 * 10000 * (total - unique) + total) \div (2 * total)

\* ORDER BY cache_hit_ratio DESC: rows of equal ratio come in any order.
RECURSIVE OrderByRatioDesc(_)
OrderByRatioDesc(G) ==
  IF G = {} THEN {<<>>}
  ELSE UNION {{<<g>> \o t : t \in OrderByRatioDesc(G \ {g})} :
                g \in {x \in G : \A y \in G : y.ratio <= x.ratio}}

\* The rows of recs in I whose latency_ms is not NULL, and the sum of their
\* latencies between lo and hi: AVG(latency_ms) is the sum over their number,
\* and NULL when there is none.
Timed(recs, I) == {i \in I : recs[i].latency # <<>>}

RECURSIVE SumLatencyBetween(_, _, _, _)
SumLatencyBetween(recs, I, lo, hi) ==
  IF lo > hi THEN 0
  ELSE IF lo = hi THEN (IF lo \in I THEN recs[lo].latency[1] ELSE 0)
  ELSE LET mid == (lo + hi) \div 2
       IN SumLatencyBetween(recs, I, lo, mid) + SumLatencyBetween(recs, I, mid + 1, hi)

\* Go's conversion int(f) of the quotient a / b, b > 0: towards zero.
TruncDiv(a, b) == IF a >= 0 THEN a \div b ELSE -((-a) \div b)

\* int(avgLatency/1000)*10, for the average latencySum / timed.
RecommendedTTL(latencySum, timed) ==
  TruncDiv(latencySum, timed * MsPerSecond) * TTLFactor

\* The rows the cache-opportunity query can return over the records recs:
\* the GET records of the last 24 hours with status_code < 400, grouped by
\* endpoint; the endpoints with more than 10 of them and fewer distinct
\* hashes than records, by hit ratio descending, the first 50.
CacheQuery(recs) ==
  LET eligible ==
        {i \in 1..Len(recs) :
           recs[i].method = "GET" /\ recs[i].age < DayWindow
           /\ recs[i].status < ErrorStatus}
      members(ep) == {i \in eligible : recs[i].endpoint = ep}
      stats ==
        {[endpoint |-> ep, total |-> Cardinality(members(ep)),
          unique |-> Cardinality({EndpointHash(recs[i]) : i \in members(ep)}),
          cost |-> SumCost(recs, members(ep)),
          priced |-> Priced(recs, members(ep)),
          timed |-> Cardinality(Timed(recs, members(ep))),
          latency |-> SumLatencyBetween(recs, Timed(recs, members(ep)), 1, Len(recs))] :
           ep \in {recs[i].endpoint : i \in eligible}}
      rows ==
        {[endpoint |-> st.endpoint, total |-> st.total, unique |-> st.unique,
          cost |-> st.cost, ratio |-> HitRatio(st.total, st.unique),
          timed |-> st.timed, latency |-> st.latency,
          ok |-> st.priced /\ st.timed > 0] :
           st \in {x \in stats : x.total > MinCalls /\ x.unique < x.total}}
  IN {Limit(ordered, CacheLimit) : ordered \in OrderByRatioDesc(rows)}

\* The CacheRecommendation list analyzeCacheOpportunities builds from the
\* rows: the endpoint, the hit ratio as the query gives it (in hundredths),
\* totalCost * (cacheRatio / 100.0) * 0.8 (here in units of 10^-11), and the
\* TTL its text recommends. A row whose total_cost or avg_latency is NULL
\* fails rows.Scan (neither fits a float64) and is passed over.
RECURSIVE CacheRecommendations(_)
CacheRecommendations(rows) ==
  IF rows = <<>> THEN <<>>
  ELSE IF ~Head(rows).ok THEN CacheRecommendations(Tail(rows))
  ELSE <<[endpoint |-> Head(rows).endpoint, ratio |-> Head(rows).ratio,
          savings |-> Head(rows).cost * Head(rows).ratio * 8,
          ttl |-> RecommendedTTL(Head(rows).latency, Head(rows).timed)]>>
       \o CacheRecommendations(Tail(rows))

\* A run of analyzeCacheOpportunities over the store.
RunCacheRecs ==
  /\ Len(emitted) < MaxRuns
  /\ \E rows \in CacheQuery(store) :
       emitted' = Append(emitted, [job |-> "cache_recs",
                                   written |-> Len(CacheRecommendations(rows)) > 0,
                                   list |-> CacheRecommendations(rows)])
  /\ UNCHANGED <<server, cache, apiEvents, pc, tickC, feeds, running, last, wrote, conns,
                 reply, store>>

\* n copies of the row r.
Copies(r, n) == [i \in 1..n |-> r]

\* Calls to endpoint 1 with the same metadata, with other metadata, failed,
\* not GET, and older than a day, and calls to endpoint 2.
CacheStores ==
  {Copies(BaseRecord, a)
     \o Copies([BaseRecord EXCEPT !.meta = 1], b)
     \o Copies([BaseRecord EXCEPT !.status = 404], c)
     \o Copies([BaseRecord EXCEPT !.method = "POST"], d)
     \o Copies([BaseRecord EXCEPT !.age = DayWindow], e)
     \o Copies([BaseRecord EXCEPT !.endpoint = 2, !.cost = 2], f) :
     a \in {0, 1, MinCalls, MinCalls + 1}, b \in {0, 1, 2}, c \in {0, 1},
     d \in {0, 1}, e \in {0, 1}, f \in {0, MinCalls + 2}}

\* n calls to endpoint 1, each with metadata of its own but for the first
\* `same`, which share theirs.
NearlyDistinct(n, same) ==
  [i \in 1..n |-> [BaseRecord EXCEPT !.meta = IF i <= same THEN same ELSE i]]

\* analyzeCacheOpportunities over the small stores, over calls that are all
\* distinct or all but two, and over the large store.
CacheSpec ==
  /\ TheInit(CacheStores
             \cup {NearlyDistinct(MinCalls + 1, 1), NearlyDistinct(MinCalls + 1, 2),
                   NearlyDistinct(ManyCalls, 2)})
  /\ [][RunCacheRecs]_vars

\* The 3 of avg_cost + 3 * stddev_cost.
SigmaFactor == 3

\* The records of organization o within the last 24 hours, and those of them
\* in the hour bucket h (time_bucket('1 hour', time); a record's bucket is
\* taken by its age in whole hours).
InDay(recs, o) == {i \in 1..Len(recs) : recs[i].org = o /\ recs[i].age < DayWindow}
InBucket(recs, o, h) == {i \in InDay(recs, o) : recs[i].age = h}

\* hourly_cost of organization o's bucket h: SUM(cost).
HourlyCost(recs, o, h) == SumCost(recs, InBucket(recs, o, h))

\* The sum of the hourly costs of organization o over the buckets H, and the
\* sum of their squares.
RECURSIVE SumHourly(_, _, _)
SumHourly(recs, o, H) ==
  IF H = {} THEN 0
  ELSE LET h == CHOOSE x \in H : TRUE
       IN HourlyCost(recs, o, h) + SumHourly(recs, o, H \ {h})

RECURSIVE SumHourlySquares(_, _, _)
SumHourlySquares(recs, o, H) ==
  IF H = {} THEN 0
  ELSE LET h == CHOOSE x \in H : TRUE
       IN HourlyCost(recs, o, h) * HourlyCost(recs, o, h)
          + SumHourlySquares(recs, o, H \ {h})

\* Mutant: hourly_cost > 3 * avg_cost, the "spending >3x the average" of the
\* comment above the query.
ExceedsThreeTimesAverage(x, n, sum, squares) == n * x > SigmaFactor * sum

\* Mutant: hourly_cost > avg_cost + 2 * stddev_cost.
ExceedsTwoSigma(x, n, sum, squares) ==
  /\ n > 1
  /\ n * x > sum
  /\ (n * x - sum) * (n * x - sum) * (n - 1) > 2 * 2 * n * (n * squares - sum * sum)

\* Mutant: hourly_cost >= avg_cost + 3 * COALESCE(stddev_cost, 0).
ExceedsOrEqual(x, n, sum, squares) ==
  /\ n * x >= sum
  /\ (n = 1 \/ (n * x - sum) * (n * x - sum) * (n - 1)
                  >= SigmaFactor * SigmaFactor * n * (n * squares - sum * sum))

\* hourly_cost > avg_cost + 3 * stddev_cost, for a bucket of cost x of an
\* organization with n buckets whose costs sum up to sum and their squares to
\* squares: AVG is sum / n, STDDEV the sample deviation
\* sqrt((n * squares - sum^2) / (n * (n - 1))), which is NULL for n = 1, and a
\* comparison with NULL selects nothing. Both sides are multiplied by n and
\* squared to stay within the integers.
Exceeds(x, n, sum, squares) ==
  /\ n > 1
  /\ n * x > sum
  /\ (n * x - sum) * (n * x - sum) * (n - 1)
       > SigmaFactor * SigmaFactor * n * (n * squares - sum * sum)

\* ORDER BY hour DESC (the youngest bucket first): rows of the same hour come
\* in any order.
RECURSIVE OrderByHourDesc(_)
OrderByHourDesc(G) ==
  IF G = {} THEN {<<>>}
  ELSE UNION {{<<g>> \o t : t \in OrderByHourDesc(G \ {g})} :
                g \in {x \in G : \A y \in G : x.age <= y.age}}

\* The rows the anomaly query can return over the records recs: the buckets
\* (hour, organization) of the last 24 hours whose cost exceeds their
\* organization's average plus three deviations, newest first.
AnomalyQuery(recs) ==
  LET orgs == {recs[i].org : i \in 1..Len(recs)}
      hours(o) == {recs[i].age : i \in InDay(recs, o)}
      flagged(o) ==
        LET H == hours(o)
            n == Cardinality(H)
            sum == SumHourly(recs, o, H)
            squares == SumHourlySquares(recs, o, H)
        IN {[org |-> o, age |-> h, cost |-> HourlyCost(recs, o, h),
             requests |-> Cardinality(InBucket(recs, o, h))] :
              h \in {x \in H : Exceeds(HourlyCost(recs, o, x), n, sum, squares)}}
  IN OrderByHourDesc(UNION {flagged(o) : o \in orgs})

\* The Anomaly list detectAnomalies builds from the rows: type and severity
\* are fixed, detected_at is the bucket's hour, and the description tells the
\* bucket's cost and request count (and the spike over the average).
RECURSIVE Anomalies(_)
Anomalies(rows) ==
  IF rows = <<>> THEN <<>>
  ELSE <<[type |-> "cost_spike", severity |-> "high", age |-> Head(rows).age,
          cost |-> Head(rows).cost, requests |-> Head(rows).requests]>>
       \o Anomalies(Tail(rows))

\* A run of detectAnomalies over the store.
RunAnomalies ==
  /\ Len(emitted) < MaxRuns
  /\ \E rows \in AnomalyQuery(store) :
       emitted' = Append(emitted, [job |-> "anomalies", written |-> Len(rows) > 0,
                                   list |-> Anomalies(rows)])
  /\ UNCHANGED <<server, cache, apiEvents, pc, tickC, feeds, running, last, wrote, conns,
                 reply, store>>

\* One record of organization o in each of the last n hours, each of cost
\* base but the one of hour at, which costs spike.
Profile(o, n, base, at, spike) ==
  [i \in 1..n |->
     [BaseRecord EXCEPT !.org = o, !.age = i - 1,
                        !.cost = IF i - 1 = at THEN spike ELSE base]]

\* The stores of anomaly detection, their costs in units of ten: an
\* organization with 1 to 24 hourly buckets, flat or with one bucket that
\* stands out more or less, one of whose hours may hold a second record, with
\* or without records older than a day, alone or beside an organization that
\* is flat at a higher cost or has a spike of its own.
AnomalyStores ==
  {Profile(1, n, 1, 2, spike)
     \o Copies([BaseRecord EXCEPT !.age = 0, !.cost = 3], twice)
     \o Copies([BaseRecord EXCEPT !.age = DayWindow, !.cost = 100], old)
     \o other :
     n \in {1, 2, 5, 10, 11, 12, DayWindow}, spike \in {1, 2, 10, 100},
     twice \in {0, 1}, old \in {0, 1},
     other \in {<<>>, Profile(2, 1, 50, 0, 50), Profile(2, 3, 50, 0, 50),
                Profile(2, 12, 5, 2, 100)}}

AnomalySpec == TheInit(AnomalyStores) /\ [][RunAnomalies]_vars

\* A record with its latency_ms column: <<>> for NULL (the column admits
\* it), <<l>> for the value l.
WithLatency(r, l) ==
  [f \in DOMAIN r \cup {"latency"} |-> IF f = "latency" THEN l ELSE r[f]]

\* The latency_ms a record of the latency stores can have: NULL, negative (the
\* column is a plain INTEGER and handleIngest stores what the request says),
\* zero, just below and from one second on.
Latencies == {<<>>, <<-1500>>, <<-1>>, <<0>>, <<999>>, <<1000>>, <<1011>>, <<2500>>}

\* Eleven repeated calls to endpoint 1, six of one latency and five of
\* another, alone or beside eleven repeated calls to endpoint 2.
LatencyStores ==
  {Copies(WithLatency(BaseRecord, a), 6)
     \o Copies(WithLatency(BaseRecord, b), 5)
     \o Copies(WithLatency([BaseRecord EXCEPT !.endpoint = 2], c), n) :
     a \in Latencies, b \in Latencies, c \in {<<>>, <<3000>>}, n \in {0, MinCalls + 1}}

\* analyzeCacheOpportunities over the latency stores.
LatencySpec == TheInit(LatencyStores) /\ [][RunCacheRecs]_vars

\* The rows the provider query can return over the records recs: the records
\* of the last 24 hours grouped by provider, with COUNT(*), SUM(cost) and the
\* count of status codes from 400 on, by total cost descending. AVG(latency_ms)
\* is NULL for a provider none of whose records has a latency, SUM(cost) for
\* one none of whose records has a cost, and rows.Scan fails on such a row
\* (ok = FALSE), which cannot be put into a float64.
ProviderCostsQuery(recs) ==
  LET inDay == {i \in 1..Len(recs) : recs[i].age < DayWindow}
      members(p) == {i \in inDay : recs[i].provider = p}
      groups ==
        {[label |-> p, request_count |-> Cardinality(members(p)),
          cost |-> SumCost(recs, members(p)),
          priced |-> Priced(recs, members(p)),
          ok |-> /\ Priced(recs, members(p))
                 /\ \E i \in members(p) : recs[i].latency # <<>>,
          error_count |-> Cardinality({i \in members(p) : recs[i].status >= ErrorStatus})] :
           p \in {recs[i].provider : i \in inDay}}
  IN OrderByCostDesc(groups)

\* Mutant: totalCost += item.Cost ahead of the check of Scan's error.
RECURSIVE ScanRowsAddingAll(_, _, _)
ScanRowsAddingAll(rows, breakdown, totalCost) ==
  IF rows = <<>> THEN [breakdown |-> breakdown, total_cost |-> totalCost]
  ELSE LET row == Head(rows)
       IN IF ~row.ok
          THEN ScanRowsAddingAll(Tail(rows), breakdown, totalCost + row.cost)
          ELSE ScanRowsAddingAll(Tail(rows),
                 Append(breakdown, [label |-> row.label, cost |-> row.cost,
                                    request_count |-> row.request_count,
                                    error_count |-> row.error_count]),
                 totalCost + row.cost)

\* The loop of calculateRealTimeCosts over the rows, from the breakdown and
\* total so far: a row Scan fails on is passed over, every other row is
\* appended and its cost added to the total.
RECURSIVE ScanRows(_, _, _)
ScanRows(rows, breakdown, totalCost) ==
  IF rows = <<>> THEN [breakdown |-> breakdown, total_cost |-> totalCost]
  ELSE LET row == Head(rows)
       IN IF ~row.ok
          THEN ScanRows(Tail(rows), breakdown, totalCost)
          ELSE ScanRows(Tail(rows),
                 Append(breakdown, [label |-> row.label, cost |-> row.cost,
                                    request_count |-> row.request_count,
                                    error_count |-> row.error_count]),
                 totalCost + row.cost)

\* A run of calculateRealTimeCosts over the store: whatever the breakdown,
\* it is marshalled with the total and the time of the run, and Set. The
\* clock is read as the number of the run.
RunRollup ==
  /\ Len(emitted) < MaxRuns
  /\ \E rows \in ProviderCostsQuery(store) :
       LET scanned == ScanRows(rows, <<>>, 0)
       IN emitted' = Append(emitted,
            [job |-> "costs", written |-> TRUE,
             list |-> [breakdown |-> scanned.breakdown,
                       total_cost |-> scanned.total_cost,
                       updated_at |-> Len(emitted) + 1],
             rows |-> rows])
  /\ UNCHANGED <<server, cache, apiEvents, pc, tickC, feeds, running, last, wrote, conns,
                 reply, store>>

\* Rows that differ from the record r in one column at a time: without a
\* latency, with an error status, older than a day, to another endpoint,
\* without a cost.
RollupKinds(r) ==
  {WithLatency(r, <<100>>),
   WithLatency(r, <<>>),
   WithLatency([r EXCEPT !.status = 500], <<100>>),
   WithLatency([r EXCEPT !.age = DayWindow], <<100>>),
   WithLatency([r EXCEPT !.endpoint = 2], <<100>>),
   WithoutCost(WithLatency(r, <<100>>))}

Providers == {"openai", "stripe", "twilio"}

\* The kinds of rows for each of three providers and at either cost.
RollupRows ==
  TupleOf(UNION {RollupKinds([BaseRecord EXCEPT !.provider = p, !.cost = c]) :
                   p \in Providers, c \in {1, 2}})

RollupNext == RunRollup \/ RunDuplicates

\* The cost rollup and the duplicate detection, each run up to MaxRuns times
\* over a store that stays as it is.
RollupSpec == TheInit(StoresOver(RollupRows, MaxRecords)) /\ [][RollupNext]_vars

\* ------------------------------------------------------------- ingestion
\* Requests handled in a behaviour.
MaxIngests == 3

\* baseCost of calculateCost when the providers table gives none, and
\* base_cost_per_request of the providers Stripe and OpenAI, in units of
\* 10^-6.
DefaultBaseCost == 1000
StripeBaseCost == 100
OpenAIBaseCost == 2000

\* The methods of a request to /api/ingest, and its bodies: one that
\* json.Decode fails on, and those it decodes into an APIRequest, whose
\* provider may be empty and whose endpoint may be empty (0).
Methods == {"POST", "GET"}
Bodies ==
  {[decodes |-> FALSE, provider |-> "", endpoint |-> 0]}
    \cup {[decodes |-> TRUE, provider |-> p, endpoint |-> e] :
            p \in {"", "Stripe", "OpenAI"}, e \in {0, 1}}

\* calculateCost for a request of no size: the provider's base cost when
\* the server has a database and the lookup finds the provider (found), the
\* default otherwise.
CalculateCost(srv, provider, found) ==
  IF srv.db /\ found
  THEN (IF provider = "Stripe" THEN StripeBaseCost ELSE OpenAIBaseCost)
  ELSE DefaultBaseCost

\* The row handleIngest inserts for a decoded body.
IngestedRecord(body, cost) ==
  WithLatency([BaseRecord EXCEPT !.provider = body.provider,
                                 !.endpoint = body.endpoint, !.cost = cost], <<0>>)

\* Mutant: handleIngest answers with an error when the insert fails, ahead
\* of the counter and the event.
HandleIngestStrict(method, body, found, inserted, up) ==
  /\ server.requestsProcessed < MaxIngests
  /\ Len(apiEvents) < MaxEvents
  /\ Len(store) < MaxRecords
  /\ IF method # "POST" \/ ~body.decodes \/ body.provider = "" \/ body.endpoint = 0
        \/ (server.db /\ ~inserted)
     THEN /\ reply' = [handler |-> "ingest", status |-> 400, up |-> TRUE, body |-> <<>>]
          /\ UNCHANGED <<server, store, apiEvents, conns>>
     ELSE LET p == Payload(TRUE, Len(apiEvents) + 1)
              published == server.redis /\ up
          IN /\ store' = IF server.db
                          THEN Append(store, IngestedRecord(body, CalculateCost(server, body.provider, found)))
                          ELSE store
             /\ server' = [server EXCEPT !.requestsProcessed = @ + 1]
             /\ apiEvents' = IF server.redis THEN RedisPublish(apiEvents, up, <<p>>)
                              ELSE apiEvents
             /\ conns' = IF published THEN [c \in Conns |-> Deliver(conns[c], p)] ELSE conns
             /\ reply' = [handler |-> "ingest", status |-> StatusOK, up |-> TRUE,
                           body |-> <<>>]
  /\ UNCHANGED <<emitted, cache, pc, tickC, feeds, running, last, wrote>>

\* handleIngest: a request that is no POST is answered 405, one whose body
\* does not decode or lacks provider or endpoint 400, and nothing else
\* happens. Any other request is inserted when the server has a database
\* (the insert succeeds or not: inserted), counted, published on api_events
\* when the server has a Redis client (Redis answers or not: up; the new
\* request event is a JSON object), and answered 200.
HandleIngest(method, body, found, inserted, up) ==
  /\ server.requestsProcessed < MaxIngests
  /\ Len(apiEvents) < MaxEvents
  /\ Len(store) < MaxRecords
  /\ IF method # "POST"
     THEN /\ reply' = [handler |-> "ingest", status |-> 405, up |-> TRUE, body |-> <<>>]
          /\ UNCHANGED <<server, store, apiEvents, conns>>
     ELSE IF ~body.decodes \/ body.provider = "" \/ body.endpoint = 0
     THEN /\ reply' = [handler |-> "ingest", status |-> 400, up |-> TRUE, body |-> <<>>]
          /\ UNCHANGED <<server, store, apiEvents, conns>>
     ELSE LET p == Payload(TRUE, Len(apiEvents) + 1)
              published == server.redis /\ up
          IN /\ store' = IF server.db /\ inserted
                          THEN Append(store, IngestedRecord(body, CalculateCost(server, body.provider, found)))
                          ELSE store
             /\ server' = [server EXCEPT !.requestsProcessed = @ + 1]
             /\ apiEvents' = IF server.redis THEN RedisPublish(apiEvents, up, <<p>>)
                              ELSE apiEvents
             /\ conns' = IF published THEN [c \in Conns |-> Deliver(conns[c], p)] ELSE conns
             /\ reply' = [handler |-> "ingest", status |-> StatusOK, up |-> TRUE,
                           body |-> <<>>]
  /\ UNCHANGED <<emitted, cache, pc, tickC, feeds, running, last, wrote>>

\* The ingestion service starts with or without its database and its Redis
\* client (main sets either to nil when its Ping fails).
IngestInit ==
  /\ cache = [k \in Keys |-> Absent]
  /\ apiEvents = <<>>
  /\ pc = [t \in Tasks |-> TopPc]
  /\ tickC = [t \in Tasks |-> 0]
  /\ feeds = {}
  /\ running = [j \in Jobs |-> 0]
  /\ last = NoCall
  /\ wrote = [k \in Keys |-> NeverWrote]
  /\ conns = [c \in Conns |-> NoConn]
  /\ reply = NoReply
  /\ store = <<>>
  /\ emitted = <<>>
  /\ server \in [db : BOOLEAN, redis : BOOLEAN, requestsProcessed : {0}]

IngestNext ==
  \E method \in Methods, body \in Bodies, found, inserted, up \in BOOLEAN :
    HandleIngest(method, body, found, inserted, up)

IngestSpec == IngestInit /\ [][IngestNext]_vars

\* --------------------------------------------------------------- claims
\* This step is the return of job j's call (its query was pending, and the
\* loop has moved on).
Returns(j) ==
  /\ pc[TaskOf(j)] = QueryPc(j)
  /\ pc'[TaskOf(j)] # QueryPc(j)
  /\ last'.job = j

\* C1: a run whose store query fails writes no cache key and publishes
\* nothing: every key keeps its value and remaining TTL, the channel its
\* content.
C1_FailedQueryWritesNothing ==
  [][\A j \in Jobs :
       (Returns(j) /\ last'.err) => (cache' = cache /\ apiEvents' = apiEvents)]_vars

\* A run has just failed on its query while an artifact of an earlier run of
\* the same job is cached.
C1_Witness ==
  \E j \in Jobs :
    /\ last.job = j /\ last.err
    /\ pc[TaskOf(j)] # QueryPc(j)
    /\ cache[KeyOf(j)].present
    /\ cache[KeyOf(j)].ttl < TTLOf(j)

\* C2: at most one run of a job is in progress at any time.
C2_NoOverlappingRuns == \A j \in Jobs : running[j] <= 1

\* A tick is waiting in the ticker's channel while a run of the task's job is
\* still awaiting the store.
C2_Witness ==
  \E j \in Jobs : running[j] = 1 /\ pc[TaskOf(j)] = QueryPc(j) /\ tickC[TaskOf(j)] > 0

\* C3: every job run ends, also when the store never answers its query
\* (the query's deadline expires and the run fails).
C3_EveryRunEnds == \A j \in Jobs : (running[j] > 0) ~> (running[j] = 0)

\* A run of job k starts in this step while the run of job j stays in
\* progress.
StartsBeside(k, j) ==
  /\ Next
  /\ running'[k] = running[k] + 1
  /\ running'[j] = running[j]

\* C4: while a run of duplicate detection awaits the store, every other job
\* (cache opportunities, anomalies, cost rollup) that is not running and has
\* a tick of its timer to receive can start its run.
C4_JobsStartIndependently ==
  \A k \in Jobs \ {"duplicates"} :
    (running["duplicates"] > 0 /\ running[k] = 0 /\ tickC[TaskOf(k)] > 0)
      => ENABLED StartsBeside(k, "duplicates")

\* This step is the return of a call of job j whose query failed.
FailedReturn(j) ==
  /\ pc[TaskOf(j)] = QueryPc(j)
  /\ last'.job = j /\ last'.err
  /\ (last' # last \/ pc'[TaskOf(j)] # pc[TaskOf(j)])

\* The job called after j in the cycle of the source's loop, "" after the
\* last one.
FollowerOf(j) ==
  CASE j = "duplicates" -> "cache_recs"
    [] j = "cache_recs" -> "anomalies"
    [] OTHER            -> ""

\* C5: a failed run never halts the scheduler: the loop goes on to the next
\* job of the cycle (to the ticker after the last one) without calling the
\* failed job again, and, as long as the store answers at all, every job
\* starts a run again and again, however many of the runs fail.
C5_FailureDoesNotHaltScheduler ==
  /\ [][\A j \in Jobs :
          FailedReturn(j) =>
            pc'[TaskOf(j)] =
              (IF FollowerOf(j) = "" THEN WaitPc ELSE QueryPc(FollowerOf(j)))]_vars
  /\ \A j \in Jobs : []<>(running[j] > 0)

\* Duplicate detection has just failed on its query, a tick of the next cycle
\* already waiting, and the cycle's next job is awaiting the store.
C5_Witness ==
  /\ last.job = "duplicates" /\ last.err
  /\ pc["analytics"] = QueryPc("cache_recs")
  /\ running["cache_recs"] = 1 /\ running["duplicates"] = 0
  /\ tickC["analytics"] > 0

\* C6: a cost-rollup run whose query succeeds SETs costs:24h:by_provider,
\* replacing what the key held, with a TTL of 5 minutes; with zero rows the
\* artifact has an empty breakdown and total_cost 0. (The SET takes effect
\* when Redis answers it.)
C6_CostRollupAlwaysWritten ==
  [][(Returns("costs") /\ ~last'.err /\ last'.up) =>
       /\ cache'["costs:24h:by_provider"].present
       /\ cache'["costs:24h:by_provider"].ttl = 5
       /\ Len(cache'["costs:24h:by_provider"].val.breakdown)
            = last'.n
       /\ (last'.n = 0 =>
             cache'["costs:24h:by_provider"].val = [breakdown |-> <<>>, total_cost |-> 0])]_vars

\* A cost-rollup run got zero rows and the key holds the empty artifact,
\* freshly written.
C6_Witness ==
  /\ last.job = "costs" /\ ~last.err /\ last.up
  /\ last.n = 0
  /\ pc["cost"] = WaitPc
  /\ cache["costs:24h:by_provider"] =
       [present |-> TRUE, val |-> [breakdown |-> <<>>, total_cost |-> 0], ttl |-> 5]

\* C7: every cost-rollup run that writes its artifact also publishes one
\* notification on api_events.
C7_CostRollupPublishes ==
  [][(Returns("costs") /\ ~last'.err /\ last'.up) =>
       Len(apiEvents') = Len(apiEvents) + 1]_vars

C9_NoWriteOnZeroDuplicates ==
  [][(Returns("duplicates") /\ ~last'.err /\ last'.n = 0) =>
       cache' = cache]_vars

\* A duplicate-detection run found nothing while the list of an earlier run
\* is cached, part of its TTL gone.
C9_Witness ==
  /\ last.job = "duplicates" /\ ~last.err /\ last.n = 0
  /\ pc["analytics"] = QueryPc("cache_recs")
  /\ cache["analytics:duplicates"].present
  /\ cache["analytics:duplicates"].ttl < 10

\* The TTL the claim gives each key, in minutes.
ClaimedTTL(k) == IF k = "costs:24h:by_provider" THEN 5 ELSE 10

\* C10: for the whole TTL after the last successful write of a key (5 minutes
\* for the cost rollup, 10 for the analysis artifacts) a reader whose GET is
\* answered gets the value written, not the empty default; each successful
\* write restarts the TTL.
C10_ArtifactOutlivesMissedCycle ==
  \A k \in Keys :
    /\ wrote[k].age < ClaimedTTL(k)
    /\ (wrote[k].age >= 0 =>
          /\ HandlerGet(cache, TRUE, k) = [found |-> TRUE, body |-> wrote[k].val]
          /\ cache[k].ttl = ClaimedTTL(k) - wrote[k].age)

\* The cost rollup was written four minutes ago, the run after it failed, and
\* a reader still gets the artifact.
C10_Witness ==
  /\ wrote["costs:24h:by_provider"].age = 4
  /\ last.job = "costs" /\ last.err
  /\ HandlerGet(cache, TRUE, "costs:24h:by_provider").found
  /\ HandlerGet(cache, TRUE, "costs:24h:by_provider").body.breakdown # <<>>

C12_FailedWriteIsRetriedNextTick ==
  /\ [][\A j \in Jobs :
          /\ (Returns(j) /\ ~last'.err /\ ~last'.up) =>
               /\ cache' = cache
               /\ running'[j] = 0
               /\ pc'[TaskOf(j)] =
                    (IF FollowerOf(j) = "" THEN WaitPc ELSE QueryPc(FollowerOf(j)))
          /\ (Returns(j) /\ ~last'.err /\ last'.up /\ cache' # cache) =>
               /\ cache'[KeyOf(j)].ttl = TTLOf(j)
               /\ Len(cache'[KeyOf(j)].val.breakdown) = last'.n]_vars
  /\ \A j \in Jobs :
       (last.job = j /\ ~last.err /\ ~last.up) ~> (pc[TaskOf(j)] = QueryPc(j))

\* The Set of a cost-rollup run has just failed while the artifact of an
\* earlier run is cached, part of its TTL gone.
C12_Witness ==
  /\ last.job = "costs" /\ ~last.err /\ ~last.up
  /\ pc["cost"] = WaitPc
  /\ cache["costs:24h:by_provider"].present
  /\ cache["costs:24h:by_provider"].ttl < 5

\* The state of the specification's connection state machine that a position
\* of handleWebSocket belongs to.
Phase(cn) ==
  CASE cn.pc = "connecting"                  -> "Connecting"
    [] cn.pc \in {"upgraded", "wsnap"}       -> "Upgraded"
    [] cn.pc \in {"select", "wmsg", "wping"} -> "Streaming"
    [] OTHER                                 -> "Closed"

PhaseRank(ph) ==
  CASE ph = "Connecting" -> 0
    [] ph = "Upgraded"   -> 1
    [] ph = "Streaming"  -> 2
    [] OTHER             -> 3

\* C13: a connection only moves forward through Connecting, Upgraded,
\* Streaming, Closed; it enters Streaming from Upgraded, in the step in which
\* the snapshot's write succeeds; once Closed it stays Closed and nothing more
\* is written to it.
C13_ConnectionMovesForward ==
  [][\A c \in Conns :
       LET old == Phase(conns[c])
           new == Phase(conns'[c])
       IN /\ PhaseRank(new) >= PhaseRank(old)
          /\ (new = "Streaming" /\ old # "Streaming") =>
               /\ old = "Upgraded"
               /\ conns[c].sent = <<>>
               /\ Len(conns'[c].sent) = 1
               /\ conns'[c].sent[1].type = "initial_data"
          /\ old = "Closed" =>
               /\ conns'[c].sent = conns[c].sent
               /\ conns'[c].pending = conns[c].pending]_vars

\* One connection was closed after its snapshot and a notification were
\* written, while another is Streaming.
C13_Witness ==
  \E c, d \in Conns :
    /\ Phase(conns[c]) = "Closed"
    /\ Len(conns[c].sent) >= 2
    /\ conns[c].sent[1].type = "initial_data"
    /\ Phase(conns[d]) = "Streaming"

\* C14: the first message written to a connection is the initial_data
\* snapshot, and it is the only one of its kind; the snapshot carries the cost
\* rollup as cached when the handler reads it (the empty default when the key
\* is absent or expired, or the GET is not answered); when the snapshot's
\* write fails the handler returns in that very step, with no reader
\* goroutine, no ticker and nothing written.
C14_SnapshotFirstOrClosed ==
  [][\A c \in Conns :
       /\ \A up \in BOOLEAN :
            SendSnapshot(c, up) =>
              /\ conns'[c].pending.type = "initial_data"
              /\ conns'[c].pending.data =
                   (IF up /\ cache["costs:24h:by_provider"].present
                    THEN cache["costs:24h:by_provider"].val
                    ELSE [breakdown |-> <<>>, total_cost |-> 0])
       /\ (conns[c].sent = <<>> /\ conns'[c].sent # <<>>) =>
            /\ conns[c].pc = "wsnap"
            /\ conns'[c].sent = <<conns[c].pending>>
       /\ (conns[c].sent # <<>> /\ conns'[c].sent # conns[c].sent) =>
            /\ conns'[c].sent[Len(conns'[c].sent)].type # "initial_data"
            /\ conns'[c].sent[1] = conns[c].sent[1]
       /\ (conns[c].pc = "wsnap" /\ conns'[c].pc # "wsnap" /\ conns'[c].sent = <<>>) =>
            /\ Phase(conns'[c]) = "Closed"
            /\ conns'[c].reader = "none"
            /\ conns'[c].res.ticker = "none"
            /\ conns'[c].pending = NoMsg]_vars

\* The snapshot's write failed on one connection, which is closed with
\* nothing written, while another got a snapshot that carries a rollup with
\* entries.
C14_Witness ==
  \E c, d \in Conns :
    /\ conns[c].pc = "closed" /\ conns[c].sent = <<>>
    /\ conns[c].res.socket = "released"
    /\ conns[d].sent # <<>>
    /\ conns[d].sent[1].type = "initial_data"
    /\ conns[d].sent[1].data.breakdown # <<>>

\* The ids of the notifications among the messages msgs, in their order.
RECURSIVE EventIds(_)
EventIds(msgs) ==
  IF msgs = <<>> THEN <<>>
  ELSE IF Head(msgs).type = "event" THEN <<Head(msgs).id>> \o EventIds(Tail(msgs))
       ELSE EventIds(Tail(msgs))

\* The ids of the payloads among ps that decode as objects, in their order.
RECURSIVE ObjectIds(_)
ObjectIds(ps) ==
  IF ps = <<>> THEN <<>>
  ELSE IF Head(ps).obj THEN <<Head(ps).id>> \o ObjectIds(Tail(ps))
       ELSE ObjectIds(Tail(ps))

IsPrefix(s, t) == Len(s) <= Len(t) /\ \A i \in 1..Len(s) : s[i] = t[i]

\* C15: on every connection the snapshot is written first and the
\* notifications written after it are, in order and each once, the first ones
\* that arrived on the connection's subscription (of those that decode as
\* objects, the only ones forwarded).
C15_PerConnectionFIFO ==
  \A c \in Conns :
    /\ conns[c].sent # <<>> => conns[c].sent[1].type = "initial_data"
    /\ IsPrefix(EventIds(conns[c].sent), ObjectIds(conns[c].arrived))
    /\ conns[c].pc = "wmsg" =>
         IsPrefix(Append(EventIds(conns[c].sent), conns[c].pending.id),
                  ObjectIds(conns[c].arrived))

\* A connection got its snapshot, then two notifications in the order they
\* were published.
C15_Witness ==
  \E c \in Conns :
    /\ Len(conns[c].sent) >= 3
    /\ conns[c].sent[1].type = "initial_data"
    /\ EventIds(conns[c].sent) = <<1, 2>>

\* C16: when the write of a notification or of a ping fails, the handler
\* returns in that very step: the connection is Closed, the failed message is
\* not written and no write is in progress, and nothing is written to the
\* connection afterwards.
C16_WriteFailureCloses ==
  [][\A c \in Conns :
       /\ (WriteReturns(c, FALSE) /\ conns[c].pc \in {"wmsg", "wping"}) =>
            /\ conns'[c].pc = "closed"
            /\ conns'[c].sent = conns[c].sent
            /\ conns'[c].pending = NoMsg
       /\ (conns[c].pc \in {"wmsg", "wping"} /\ conns'[c].pc = "select") =>
            conns'[c].sent = Append(conns[c].sent, conns[c].pending)
       /\ conns[c].pc = "closed" =>
            /\ conns'[c].pc = "closed"
            /\ conns'[c].sent = conns[c].sent
            /\ conns'[c].pending = NoMsg]_vars

\* A connection was closed by a failed write in the loop: its client is still
\* there (the reader goroutine has not seen an error yet) and a notification
\* that arrived was not written.
C16_Witness ==
  \E c \in Conns :
    /\ conns[c].pc = "closed"
    /\ conns[c].reader = "reading"
    /\ conns[c].sent # <<>>
    /\ Len(ObjectIds(conns[c].arrived)) > Len(EventIds(conns[c].sent))

C18_ResourcesReleasedOnce ==
  \A c \in Conns :
    /\ \A x \in {"socket", "pubsub", "ticker"} : conns[c].res[x] # "released twice"
    /\ conns[c].pc = "closed" =>
         /\ conns[c].res.socket = "released"
         /\ conns[c].res.pubsub = "released"
         /\ conns[c].res.ticker = (IF conns[c].sent = <<>> THEN "none" ELSE "released")
         /\ ~conns[c].active
    /\ conns[c].pc # "closed" =>
         \A x \in {"socket", "pubsub", "ticker"} : conns[c].res[x] \in {"none", "live"}

\* Two connections closed by different branches: one on the failed write of
\* its snapshot, before a ticker was made, the other after its client went
\* away.
C18_Witness ==
  \E c, d \in Conns :
    /\ conns[c].pc = "closed" /\ conns[c].sent = <<>>
    /\ conns[c].res = [socket |-> "released", pubsub |-> "released", ticker |-> "none"]
    /\ conns[d].pc = "closed" /\ conns[d].reader = "done"
    /\ conns[d].res = [socket |-> "released", pubsub |-> "released", ticker |-> "released"]

\* A WriteJSON is in progress on the connection (and may never return).
InWrite(cn) == cn.pc \in {"wsnap", "wmsg", "wping"}

\* C19: connections are isolated. A step in which a connection's handler
\* returns (a failed write, a client gone) or in which a write of it ends
\* changes no other connection; and while a write is in progress on one
\* connection, every other Streaming connection can take the next
\* notification off its subscription and can finish its own write.
C19_ConnectionsIsolated ==
  /\ [][\A c \in Conns :
          conns'[c].pc # conns[c].pc =>
            \A d \in Conns \ {c} : conns'[d] = conns[d]]_vars
  /\ [](\A c \in Conns : \A d \in Conns \ {c} :
          InWrite(conns[c]) =>
            /\ (conns[d].pc = "select" /\ conns[d].subq # <<>>) => ENABLED SelectMsg(d)
            /\ conns[d].pc = "wmsg" => ENABLED WriteReturns(d, TRUE))

\* One connection is still inside the write of the first notification while
\* the other has been written both notifications.
C19_Witness ==
  \E c \in Conns : \E d \in Conns \ {c} :
    /\ conns[c].pc = "wmsg" /\ conns[c].pending.id = 1
    /\ EventIds(conns[d].sent) = <<1, 2>>

\* The payload with id i was published while the connection was Streaming,
\* and reached its subscription.
Arrived(cn, i) ==
  \E k \in 1..Len(cn.arrived) : cn.arrived[k].id = i /\ cn.arrived[k].inLoop

\* The notification with id i has been written to the connection.
Forwarded(cn, i) == \E k \in 1..Len(cn.sent) : cn.sent[k].type = "event" /\ cn.sent[k].id = i

\* C20: every notification published while a connection is Streaming (and
\* handed to its subscription), whatever its content, is in the end written
\* to the connection, unless the connection is Closed first.
C20_EveryNotificationForwarded ==
  \A c \in Conns : \A i \in 1..MaxEvents :
    (Phase(conns[c]) = "Streaming" /\ Arrived(conns[c], i))
      ~> (Forwarded(conns[c], i) \/ Phase(conns[c]) = "Closed")

\* C21: a data message of a client, whatever its payload and however many
\* came before, changes nothing of the connection but the count of messages
\* read: the connection stays Streaming, nothing is written or handed to
\* WriteJSON for it, nothing is stored or published, the reader goes on
\* reading; and a Streaming connection
\* is closed only by the loop's case <-done after a read error, or by a write
\* that fails.
C21_ClientPayloadsIgnored ==
  [][\A c \in Conns :
       /\ \A p \in ClientPayloads :
            ClientSends(c, p) =>
              /\ Phase(conns[c]) = "Streaming"
              /\ conns' = [conns EXCEPT ![c] = [@ EXCEPT !.rcvd = conns[c].rcvd + 1]]
              /\ cache' = cache /\ apiEvents' = apiEvents
       /\ (Phase(conns[c]) = "Streaming" /\ Phase(conns'[c]) = "Closed") =>
            \/ conns[c].pc = "select" /\ conns[c].reader = "done"
            \/ WriteReturns(c, FALSE)]_vars

\* A client has sent as many messages as it may and its connection is
\* Streaming with its reader reading and only the snapshot written, while the
\* other connection was closed by a failed write.
C21_Witness ==
  \E c \in Conns : \E d \in Conns \ {c} :
    /\ conns[c].rcvd = MaxClientMsgs
    /\ conns[c].pc = "select" /\ conns[c].reader = "reading"
    /\ Len(conns[c].sent) = 1
    /\ conns[d].pc = "closed" /\ conns[d].reader = "reading" /\ conns[d].sent # <<>>

\* The numbers of the ticks whose pings are among the messages msgs, in
\* their order.
RECURSIVE PingIds(_)
PingIds(msgs) ==
  IF msgs = <<>> THEN <<>>
  ELSE IF Head(msgs).type = "ping" THEN <<Head(msgs).id>> \o PingIds(Tail(msgs))
       ELSE PingIds(Tail(msgs))

\* The handler is blocked in its select with nothing to receive.
Idle(cn) == cn.pc = "select" /\ cn.pingC = 0 /\ cn.subq = <<>>

\* C22: every ping written comes from a tick of the connection's own ticker,
\* and no tick gives two pings; a tick that finds the connection Streaming and
\* idle is held for the handler and its ping is written (unless the connection
\* is Closed first), so that the pings of an idle connection are those of
\* consecutive ticks, one period apart; the first message is the snapshot, the
\* ticker does not fire before the snapshot is written, and nothing is
\* written to a Closed connection.
C22_OnePingPerTick ==
  /\ [](\A c \in Conns :
          LET ids == PingIds(conns[c].sent)
          IN /\ \A i \in 1..Len(ids) :
                  /\ ids[i] \in 1..conns[c].ticks
                  /\ \A j \in 1..Len(ids) : i < j => ids[i] < ids[j]
             /\ conns[c].sent # <<>> => conns[c].sent[1].type = "initial_data"
             /\ conns[c].ticks > 0 => conns[c].sent # <<>>
             /\ conns[c].pc = "wping" =>
                  \A i \in 1..Len(ids) : ids[i] < conns[c].pending.id)
  /\ [][\A c \in Conns :
          /\ (conns'[c].ticks # conns[c].ticks /\ Idle(conns[c])) =>
               /\ conns'[c].pingC = 1
               /\ conns'[c].tickAt = conns'[c].ticks
               /\ conns'[c].ticks = conns[c].ticks + 1
               /\ conns'[c].sent = conns[c].sent
          /\ (conns[c].pingC = 1 /\ conns'[c].pc = "wping" /\ conns[c].pc # "wping") =>
               conns'[c].pending = [type |-> "ping", data |-> EmptyValue,
                                    id |-> conns[c].tickAt]
          /\ (conns[c].pingC = 1 /\ conns'[c].pingC = 1) =>
               conns'[c].tickAt = conns[c].tickAt
          /\ conns[c].pc = "closed" =>
               (conns'[c].sent = conns[c].sent /\ conns'[c].ticks = conns[c].ticks)]_vars
  /\ \A c \in Conns : \A k \in 1..MaxIdleTicks :
       (conns[c].tickAt = k /\ Phase(conns[c]) = "Streaming")
         ~> (\/ \E i \in 1..Len(conns[c].sent) :
                  conns[c].sent[i].type = "ping" /\ conns[c].sent[i].id = k
             \/ Phase(conns[c]) = "Closed")

\* One connection, idle at every tick, was written the snapshot and then the
\* pings of three consecutive ticks; on the other a write was in progress for
\* so long that its third tick was dropped.
C22_Witness ==
  \E c \in Conns : \E d \in Conns \ {c} :
    /\ Len(conns[c].sent) = 4
    /\ conns[c].sent[1].type = "initial_data"
    /\ PingIds(conns[c].sent) = <<1, 2, 3>>
    /\ conns[d].ticks = 3
    /\ PingIds(conns[d].sent) = <<1, 2>>
    /\ conns[d].pc = "select" /\ conns[d].pingC = 0

\* C23: no operation of the gateway (a GET handler, the dashboard summary, a
\* step of a websocket connection, whatever its state) changes the value or
\* the remaining TTL of an artifact key, and none publishes on api_events:
\* the channel grows only by a publisher's PUBLISH.
C23_GatewayOnlyReads ==
  [][/\ ((\E h \in Handlers : \E up \in BOOLEAN : HandleGet(h, up))
          \/ conns' # conns \/ reply' # reply) =>
         cache' = cache
     /\ apiEvents' # apiEvents =>
         \E obj \in BOOLEAN : \E up \in BOOLEAN : Publish(obj, up)]_vars

\* The summary was served from a cache that holds the duplicate list with
\* part of its TTL gone and no cost rollup, after a connection had been
\* written its snapshot and a notification.
C23_Witness ==
  /\ reply.handler = "summary" /\ reply.up
  /\ cache["analytics:duplicates"].present
  /\ cache["analytics:duplicates"].ttl = 1
  /\ ~cache["costs:24h:by_provider"].present
  /\ Len(conns[1].sent) >= 2
  /\ conns[1].sent[2].type = "event"

\* The key the claim gives each job.
ClaimedKey(j) ==
  CASE j = "duplicates" -> "analytics:duplicates"
    [] j = "cache_recs" -> "analytics:cache_recommendations"
    [] j = "anomalies"  -> "analytics:anomalies"
    [] j = "costs"      -> "costs:24h:by_provider"

\* C24: the artifact keys are the four fixed ones, and a run of one job,
\* whatever its outcome and whatever the other task is doing, leaves value
\* and remaining TTL of the three keys of the other jobs as they were; when
\* it writes, it writes its own key.
C24_JobsWriteOwnKeyOnly ==
  /\ [](DOMAIN cache = {ClaimedKey(j) : j \in Jobs})
  /\ [][\A j \in Jobs :
          Returns(j) =>
            /\ \A k \in DOMAIN cache : k # ClaimedKey(j) => cache'[k] = cache[k]
            /\ (~last'.err /\ last'.up /\ last'.n > 0) =>
                 /\ cache'[ClaimedKey(j)].present
                 /\ Len(cache'[ClaimedKey(j)].val.breakdown) = last'.n]_vars

\* Anomaly detection has just written its list while the cost rollup of the
\* other task is cached with part of its TTL gone and the cost task is in the
\* middle of a run.
C24_Witness ==
  /\ last.job = "anomalies" /\ ~last.err /\ last.up /\ last.n > 0
  /\ pc["analytics"] = WaitPc
  /\ cache["analytics:anomalies"].present
  /\ cache["analytics:anomalies"].ttl = 10
  /\ cache["costs:24h:by_provider"].present
  /\ cache["costs:24h:by_provider"].ttl < 5
  /\ pc["cost"] = QueryPc("costs")

\* The groups the claim describes: the records of the last hour that share
\* organization, endpoint and fingerprint (method and metadata within an
\* endpoint), as (endpoint, count, summed cost), one for each such triple with
\* more than one record.
ReferenceGroups(recs) ==
  LET inHour == {i \in 1..Len(recs) : recs[i].age = 0}
      same(i, j) ==
        /\ recs[i].org = recs[j].org /\ recs[i].endpoint = recs[j].endpoint
        /\ recs[i].method = recs[j].method /\ recs[i].meta = recs[j].meta
      class(i) == {j \in inHour : same(i, j)}
  IN {[members |-> C, endpoint |-> recs[CHOOSE i \in C : TRUE].endpoint,
       count |-> Cardinality(C), cost |-> SumCost(recs, C)] :
        C \in {D \in {class(i) : i \in inHour} : Cardinality(D) > 1}}

\* The list is the reference groups G by summed cost descending, cut to the
\* first n: it has the length of G or n, no entry precedes one of greater
\* cost, no (endpoint, count, cost) comes more often than G has groups of it,
\* and each that costs more than the last entry comes as often.
IsReferenceList(list, G, n) ==
  LET entryOf(g) == [endpoint |-> g.endpoint, count |-> g.count, cost |-> g.cost]
      inList(v) == Cardinality({i \in 1..Len(list) : list[i] = v})
      inG(v) == Cardinality({g \in G : entryOf(g) = v})
  IN /\ Len(list) = (IF Cardinality(G) < n THEN Cardinality(G) ELSE n)
     /\ \A i, j \in 1..Len(list) : i < j => list[i].cost >= list[j].cost
     /\ \A i \in 1..Len(list) : inList(list[i]) <= inG(list[i])
     /\ \A g \in G :
          (list # <<>> /\ g.cost > list[Len(list)].cost) =>
            inList(entryOf(g)) = inG(entryOf(g))

CallsTo(recs, ep) ==
  {i \in 1..Len(recs) :
     /\ recs[i].endpoint = ep /\ recs[i].method = "GET"
     /\ recs[i].status < 400 /\ recs[i].age < 24}

\* The distinct fingerprints (metadata within the endpoint) among the rows I.
Distinct(recs, I) == Cardinality({recs[i].meta : i \in I})

\* C26: every emitted cache recommendation is for an endpoint with more than
\* 10 GET calls of status < 400 in the window and fewer distinct fingerprints
\* than calls; its hit ratio is 100 * (total - distinct) / total (to two
\* decimals, here in hundredths), lies in [0, 100] and is greater than 0.
C26_HitRatioInRange ==
  \A r \in 1..Len(emitted) :
    emitted[r].job = "cache_recs" =>
      \A i \in 1..Len(emitted[r].list) :
        \A total \in {Cardinality(CallsTo(store, emitted[r].list[i].endpoint))} :
          \A distinct \in {Distinct(store, CallsTo(store, emitted[r].list[i].endpoint))} :
            LET ratio == emitted[r].list[i].ratio
            IN /\ total > 10
               /\ distinct < total
               /\ 2 * total * ratio - total <= 2 * 10000 * (total - distinct)
               /\ 2 * 10000 * (total - distinct) < 2 * total * ratio + total
               /\ ratio >= 0 /\ ratio <= 10000
               /\ ratio > 0

\* The hourly costs of organization o over the last 24 hours, as the claim
\* puts them: one entry for each hour in which the organization has records.
BucketHours(recs, o) ==
  {recs[i].age : i \in {k \in 1..Len(recs) : recs[k].org = o /\ recs[k].age < 24}}

BucketCost(recs, o, h) ==
  SumCost(recs, {i \in 1..Len(recs) : recs[i].org = o /\ recs[i].age = h})

\* Sum over the hours H of (n * cost - total)^2: n^2 times the sum of the
\* squared distances from the mean.
RECURSIVE SquaredDistances(_, _, _, _, _)
SquaredDistances(recs, o, H, n, total) ==
  IF H = {} THEN 0
  ELSE LET h == CHOOSE x \in H : TRUE
           dist == n * BucketCost(recs, o, h) - total
       IN dist * dist + SquaredDistances(recs, o, H \ {h}, n, total)

RECURSIVE TotalCost(_, _, _)
TotalCost(recs, o, H) ==
  IF H = {} THEN 0
  ELSE LET h == CHOOSE x \in H : TRUE
       IN BucketCost(recs, o, h) + TotalCost(recs, o, H \ {h})

\* The bucket's cost is strictly greater than the organization's mean hourly
\* cost plus 3 standard deviations (the deviation of a sample: the squared
\* distances from the mean, summed, over n - 1): with more than one bucket,
\* cost > mean and (cost - mean)^2 > 9 * deviation^2.
AboveThreeSigma(recs, o, h) ==
  LET H == BucketHours(recs, o)
      n == Cardinality(H)
      total == TotalCost(recs, o, H)
      x == BucketCost(recs, o, h)
  IN /\ n > 1
     /\ n * x > total
     /\ (n * x - total) * (n * x - total) * (n - 1)
          > 9 * SquaredDistances(recs, o, H, n, total)

\* The buckets of the store that the claim has flagged, as (hour, cost).
ReferenceAnomalies(recs) ==
  {[org |-> o, age |-> h, cost |-> BucketCost(recs, o, h)] :
     <<o, h>> \in {p \in {recs[i].org : i \in 1..Len(recs)} \X (0..23) :
                     p[2] \in BucketHours(recs, p[1])
                     /\ AboveThreeSigma(recs, p[1], p[2])}}

\* The claim's examples, in units of ten: hourly costs 10, 10, 10, 10, 100,
\* and 23 hours of 10 with one of 1000.
FiveBuckets == Profile(1, 5, 1, 2, 10)
DayOfBuckets == Profile(1, 24, 1, 2, 100)

WindowOrgs(recs) ==
  {recs[i].org : i \in {k \in 1..Len(recs) : recs[k].age < 24}}

Degenerate(recs, o) ==
  \/ Cardinality(BucketHours(recs, o)) = 1
  \/ \A g, h \in BucketHours(recs, o) : BucketCost(recs, o, g) = BucketCost(recs, o, h)

\* C28: an organization whose hourly costs are degenerate (one bucket, where
\* the deviation is undefined, or all buckets equal, where it is zero) gets no
\* anomaly; the query has a result all the same (the run does not fail),
\* and the other organizations get the anomalies their own thresholds give
\* them.
C28_DegenerateDistributions ==
  LET fine == {o \in WindowOrgs(store) : ~Degenerate(store, o)}
      due == {g \in ReferenceAnomalies(store) : g.org \in fine}
  IN /\ (\E o \in WindowOrgs(store) : Degenerate(store, o))
          => AnomalyQuery(store) # {}
     /\ \A r \in 1..Len(emitted) :
          emitted[r].job = "anomalies" =>
            /\ Len(emitted[r].list) = Cardinality(due)
            /\ \A i \in 1..Len(emitted[r].list) :
                 \E g \in due : /\ g.age = emitted[r].list[i].age
                                /\ g.cost = emitted[r].list[i].cost
            /\ fine = {} => (emitted[r].list = <<>> /\ ~emitted[r].written)

\* A run over a store in which organization 1 has twelve equal buckets and
\* organization 2 a spike emitted the anomaly of organization 2 alone.
C28_Witness ==
  /\ store = Profile(1, 12, 1, 2, 1) \o Profile(2, 12, 5, 2, 100)
  /\ Degenerate(store, 1)
  /\ Len(emitted) = 1
  /\ emitted[1].job = "anomalies"
  /\ Len(emitted[1].list) = 1
  /\ emitted[1].list[1].cost = 100

\* A run over a store whose only organization has a single bucket went
\* through and emitted nothing.
C28_SingleBucket ==
  /\ store = Profile(1, 1, 1, 2, 1)
  /\ Cardinality(BucketHours(store, 1)) = 1
  /\ Len(emitted) = 1
  /\ emitted[1].list = <<>>

\* A cost rollup without the time of its computation.
Untimed(a) == [breakdown |-> a.breakdown, total_cost |-> a.total_cost]

\* C29: two runs of the same job over the same records write the same
\* artifact, but for the time of computation in the cost rollup: the second
\* run of duplicate detection builds the list of the first (and writes it or
\* not as the first did), the second cost rollup the breakdown and total of
\* the first.
C29_RerunWritesSameArtifact ==
  \A q, r \in 1..Len(emitted) :
    (q < r /\ emitted[q].job = emitted[r].job) =>
      /\ emitted[q].written = emitted[r].written
      /\ emitted[q].job = "duplicates" => emitted[q].list = emitted[r].list
      /\ emitted[q].job = "costs" => Untimed(emitted[q].list) = Untimed(emitted[r].list)

\* The sum of the cost fields of a breakdown.
RECURSIVE BreakdownSum(_)
BreakdownSum(b) == IF b = <<>> THEN 0 ELSE Head(b).cost + BreakdownSum(Tail(b))

\* The providers of the store none of whose records of the last 24 hours has
\* a latency: their rows are the malformed ones.
Unscannable(recs) ==
  {p \in Providers :
     /\ \E i \in 1..Len(recs) : recs[i].provider = p /\ recs[i].age < 24
     /\ \A i \in 1..Len(recs) :
          (recs[i].provider = p /\ recs[i].age < 24) => recs[i].latency = <<>>}

\* C30: in every cost rollup written, total_cost is the sum of the cost
\* fields of the breakdown of that rollup, also when rows were skipped as
\* malformed.
C30_TotalIsSumOfBreakdown ==
  \A r \in 1..Len(emitted) :
    (emitted[r].job = "costs" /\ emitted[r].written) =>
      emitted[r].list.total_cost = BreakdownSum(emitted[r].list.breakdown)

\* A rollup over a store with two providers whose rows decode and one whose
\* row does not: the breakdown holds the two, and the total is their sum.
C30_Witness ==
  /\ Cardinality(Unscannable(store)) = 1
  /\ Len(emitted) > 0
  /\ emitted[1].job = "costs"
  /\ Len(emitted[1].list.breakdown) = 2
  /\ emitted[1].list.total_cost = 3
  /\ SumCost(store, 1..Len(store)) > 3

\* The rows of a result that Scan decodes, in their order, as entries of the
\* cost breakdown and of the duplicates list.
DecodedBreakdown(rows) ==
  LET kept == SelectSeq(rows, LAMBDA w : w.priced /\ w.ok)
  IN [i \in 1..Len(kept) |->
        [label |-> kept[i].label, cost |-> kept[i].cost,
         request_count |-> kept[i].request_count, error_count |-> kept[i].error_count]]

DecodedDuplicates(rows) ==
  LET kept == SelectSeq(rows, LAMBDA w : w.priced)
  IN [i \in 1..Len(kept) |->
        [endpoint |-> kept[i].endpoint, count |-> kept[i].count, cost |-> kept[i].cost]]

\* C31: a row that cannot be decoded is skipped alone: the list a run builds
\* holds exactly the rows of its result that decode, in the order of the
\* result; the cost rollup writes it whatever it holds, duplicate detection
\* whenever a row decoded.
C31_UndecodableRowSkippedAlone ==
  \A r \in 1..Len(emitted) :
    /\ emitted[r].job = "costs" =>
         /\ emitted[r].written
         /\ emitted[r].list.breakdown = DecodedBreakdown(emitted[r].rows)
    /\ emitted[r].job = "duplicates" =>
         /\ emitted[r].list = DecodedDuplicates(emitted[r].rows)
         /\ emitted[r].written = (DecodedDuplicates(emitted[r].rows) # <<>>)

\* A cost rollup whose result had a row that does not decode between two
\* that do, and a duplicate detection whose result began with one: each
\* wrote the rows that decode.
C31_Witness ==
  /\ Len(emitted) = 2
  /\ emitted[1].job = "costs" /\ emitted[2].job = "duplicates"
  /\ \E i \in 1..Len(emitted[1].rows) : ~emitted[1].rows[i].ok
  /\ Len(emitted[1].list.breakdown) >= 1
  /\ Len(emitted[2].rows) = 2
  /\ ~emitted[2].rows[1].priced
  /\ emitted[2].written /\ Len(emitted[2].list) = 1

\* A cost rollup over three providers skipped the second row of its result
\* and kept the first and the third.
C31_MiddleRowSkipped ==
  /\ Len(emitted) = 1 /\ emitted[1].job = "costs"
  /\ Len(emitted[1].rows) = 3
  /\ emitted[1].rows[1].ok /\ ~emitted[1].rows[2].ok /\ emitted[1].rows[3].ok
  /\ Len(emitted[1].list.breakdown) = 2

\* The request passes the validation of the ingest handler.
PassesValidation(method, body) ==
  method = "POST" /\ body.decodes /\ body.provider # "" /\ body.endpoint # 0

\* C32: a request that passes validation adds exactly one to the processed
\* counter and, when the server has its cache client and the cache answers,
\* exactly one event to api_events (and never more than one), whether the
\* insert went through or not; a rejected request changes neither the
\* counter nor the table nor the channel.
C32_AcceptedCountedAndPublishedOnce ==
  [][\A method \in Methods, body \in Bodies, found, inserted, up \in BOOLEAN :
       HandleIngest(method, body, found, inserted, up) =>
         IF PassesValidation(method, body)
         THEN /\ server'.requestsProcessed = server.requestsProcessed + 1
              /\ Len(apiEvents') <= Len(apiEvents) + 1
              /\ (server.redis /\ up) =>
                   /\ Len(apiEvents') = Len(apiEvents) + 1
                   /\ apiEvents'[Len(apiEvents')].obj
              /\ SubSeq(apiEvents', 1, Len(apiEvents)) = apiEvents
              /\ Len(store') <= Len(store) + 1
         ELSE /\ server'.requestsProcessed = server.requestsProcessed
              /\ store' = store
              /\ apiEvents' = apiEvents]_vars

\* A server with database and cache client handled one valid request whose
\* insert failed: it is counted and published, and the table is empty.
C32_Witness ==
  /\ server.db /\ server.redis
  /\ server.requestsProcessed = 1
  /\ store = <<>>
  /\ Len(apiEvents) = 1
  /\ reply.handler = "ingest" /\ reply.status = StatusOK

\* The jobs of the claim on runs without results, and the handlers that
\* read their keys.
QuietJobs == {"cache_recs", "anomalies"}
QuietKey(j) ==
  IF j = "cache_recs" THEN "analytics:cache_recommendations" ELSE "analytics:anomalies"

\* C33: a cache-opportunity or anomaly run without results writes nothing
\* (its key keeps value and remaining TTL); what is cached under either key
\* is the list of the last run that had results, for ten minutes from that
\* write; the minute that ends the ten removes it, and a reader of a key that
\* is gone gets the empty list.
C33_EmptyRunLeavesStaleList ==
  /\ [][\A j \in QuietJobs :
         (Returns(j) /\ ~last'.err /\ last'.n = 0) =>
           /\ cache'[QuietKey(j)] = cache[QuietKey(j)]
           /\ cache' = cache]_vars
  /\ [](\A j \in QuietJobs :
          cache[QuietKey(j)].present =>
            /\ wrote[QuietKey(j)].age >= 0
            /\ cache[QuietKey(j)].val = wrote[QuietKey(j)].val
            /\ cache[QuietKey(j)].val.breakdown # <<>>
            /\ cache[QuietKey(j)].ttl = 10 - wrote[QuietKey(j)].age
            /\ cache[QuietKey(j)].ttl > 0)
  /\ [][\A j \in QuietJobs :
         (Minute /\ cache[QuietKey(j)].present /\ wrote[QuietKey(j)].age = 9) =>
           ~cache'[QuietKey(j)].present]_vars
  /\ [][\A j \in QuietJobs :
         (reply' # reply /\ QuietKey(j) \in DOMAIN reply'.body
          /\ ~cache[QuietKey(j)].present) =>
           reply'.body[QuietKey(j)].breakdown = <<>>]_vars

\* An anomaly run found nothing while the list of an earlier run is cached,
\* part of its TTL gone, and a reader has been given that list.
C33_Witness ==
  /\ last.job = "anomalies" /\ ~last.err /\ last.n = 0
  /\ cache["analytics:anomalies"].present
  /\ cache["analytics:anomalies"].ttl < 10
  /\ wrote["analytics:anomalies"].age > 0
  /\ reply.handler = "anomalies"
  /\ reply.body["analytics:anomalies"] = cache["analytics:anomalies"].val

\* The handler of the connection has read the snapshot and has not returned.
SnapshotRead(cn) == cn.pc \in {"wsnap", "select", "wmsg", "wping"}

\* C34: no notification falls in a gap between the snapshot and the
\* subscription: a notification published once the connection has read its
\* snapshot reaches the connection's subscription, from which the loop
\* forwards it after the snapshot.
C34_NoNotificationInGap ==
  [][\A c \in Conns :
       (Len(apiEvents') = Len(apiEvents) + 1 /\ SnapshotRead(conns[c])) =>
         /\ Len(conns'[c].arrived) = Len(conns[c].arrived) + 1
         /\ conns'[c].arrived[Len(conns'[c].arrived)].id = Len(apiEvents')]_vars

\* The calls of conn.WriteJSON in progress on a connection: the handler's,
\* and the reader goroutine's if it were in one.
WritesInProgress(cn) ==
  (IF cn.pc \in {"wsnap", "wmsg", "wping"} THEN 1 ELSE 0)
    + (IF cn.reader \notin {"none", "reading", "done"} THEN 1 ELSE 0)

\* C35: each connection has a single writer. At most one write is in
\* progress on a connection at any time; a message is written only by the
\* return of the handler's write in progress, and it is the message of that
\* write; the handler begins a write only when none is in progress; the
\* steps of the reader goroutine (a message read, a read error) write nothing
\* and begin no write.
C35_SingleWriter ==
  /\ [](\A c \in Conns :
          /\ WritesInProgress(conns[c]) <= 1
          /\ (conns[c].pending # NoMsg) = (conns[c].pc \in {"wsnap", "wmsg", "wping"}))
  /\ [][\A c \in Conns :
         /\ conns'[c].sent # conns[c].sent =>
              /\ WriteReturns(c, TRUE)
              /\ conns'[c].sent = Append(conns[c].sent, conns[c].pending)
              /\ conns[c].pending.type \in {"initial_data", "event", "ping"}
         /\ (conns'[c].pending # conns[c].pending /\ conns'[c].pending # NoMsg) =>
              /\ WritesInProgress(conns[c]) = 0
              /\ WritesInProgress(conns'[c]) = 1
         /\ ((\E p \in ClientPayloads : ClientSends(c, p)) \/ ReaderFails(c)) =>
              /\ conns'[c].sent = conns[c].sent
              /\ conns'[c].pending = conns[c].pending
              /\ conns'[c].pc = conns[c].pc]_vars

\* The reader goroutine of a connection has read a message of the client
\* and is reading on, while the handler is inside the write of a
\* notification, a snapshot and a ping having been written before.
C35_Witness ==
  \E c \in Conns :
    /\ conns[c].pc = "wmsg"
    /\ conns[c].reader = "reading" /\ conns[c].rcvd > 0
    /\ Len(conns[c].sent) = 2
    /\ conns[c].sent[2].type = "ping"

\* C36: the reader goroutine of a connection always ends. A reader is started
\* once, only by a handler that has written the snapshot; it ends once (its
\* deferred close(done) runs in the step that ends it) and is never started
\* again; and when the handler has returned while the reader is still reading,
\* the read on the closed socket fails and the reader ends.
C36_ReaderTerminates ==
  /\ \A c \in Conns :
       (conns[c].pc = "closed" /\ conns[c].reader = "reading")
         ~> (conns[c].reader = "done")
  /\ [][\A c \in Conns :
         conns'[c].reader # conns[c].reader =>
           \/ /\ conns[c].reader = "none"
              /\ conns'[c].reader = "reading"
              /\ conns[c].pc = "wsnap"
           \/ /\ conns[c].reader = "reading"
              /\ conns'[c].reader = "done"]_vars

\* The handler of a connection has returned on a write that failed inside the
\* loop, with nothing but the snapshot written: the socket is closed and the
\* reader goroutine has not returned yet.
C36_Witness ==
  \E c \in Conns :
    /\ conns[c].pc = "closed"
    /\ conns[c].res.socket = "released"
    /\ conns[c].reader = "reading"
    /\ Len(conns[c].sent) = 1

\* C37: a task's loop runs its jobs once at start, without a tick, and then
\* once per tick it receives. The channel of its ticker holds at most one
\* tick: every minute the ticker fires, whatever the loop is doing, and the
\* tick is kept only if none is waiting. A run starts from the top of the
\* loop (the first run, leaving the channel alone) or from <-ticker.C with
\* the one waiting tick, which it takes; the loop never comes back to its
\* top, and it gets to <-ticker.C only from its last job. So after a slow
\* run exactly one run starts at once, and the one after it waits for the
\* next minute.
C37_OneRunPerTick ==
  /\ [](\A t \in Tasks : tickC[t] \in 0..1)
  /\ [][\A t \in Tasks :
         /\ Minute => tickC'[t] = (IF tickC[t] = 0 THEN 1 ELSE tickC[t])
         /\ ~Minute => tickC'[t] <= tickC[t]
         /\ (pc'[t] # pc[t] /\ pc'[t] = QueryPc(JobsOf(t)[1])) =>
              \/ pc[t] = TopPc /\ tickC'[t] = tickC[t]
              \/ pc[t] = WaitPc /\ tickC[t] = 1 /\ tickC'[t] = 0
         /\ tickC'[t] < tickC[t] =>
              pc[t] = WaitPc /\ pc'[t] = QueryPc(JobsOf(t)[1])
         /\ pc'[t] # pc[t] => pc'[t] # TopPc
         /\ (pc'[t] # pc[t] /\ pc'[t] = WaitPc) =>
              pc[t] = QueryPc(JobsOf(t)[Len(JobsOf(t))])]_vars

\* The analytics loop is inside a run, in its last job, and a tick that fired
\* during the run is waiting: the next tick finds the channel full.
C37_Witness ==
  /\ pc["analytics"] = QueryPc("anomalies")
  /\ tickC["analytics"] = 1

\* Hourly costs to draw from (negative ones too: the column admits them), and
\* the ways to give n buckets these costs: how many buckets have each cost.
CostLevels == {-3, 0, 1, 3, 100}

CostCounts(n) ==
  {f \in [CostLevels -> 0..n] : f[-3] + f[0] + f[1] + f[3] + f[100] = n}

CountedSum(f) == -3 * f[-3] + f[1] + 3 * f[3] + 100 * f[100]
CountedSquares(f) == 9 * f[-3] + f[1] + 9 * f[3] + 10000 * f[100]

\* Over every distribution of the cost levels on 1 to 5 buckets, and of three
\* of them on 6 to 10: no bucket is more than (n - 1) / sqrt(n) sample
\* deviations above the mean (squared and multiplied out:
\* (n * x - sum)^2 <= (n - 1) * (n * squares - sum^2)), and none exceeds the
\* mean by more than three.
NoneAboveThreeSigma ==
  \A n \in 1..10 :
    \A f \in {g \in CostCounts(n) : n <= 5 \/ (g[-3] = 0 /\ g[3] = 0)} :
      \A x \in {l \in CostLevels : f[l] > 0} :
        /\ (n * x - CountedSum(f)) * (n * x - CountedSum(f))
             <= (n - 1) * (n * CountedSquares(f) - CountedSum(f) * CountedSum(f))
        /\ ~Exceeds(x, n, CountedSum(f), CountedSquares(f))

C38_ElevenBuckets ==
  /\ store = Profile(1, 11, 1, 2, 2)
  /\ Len(emitted) = 1
  /\ Len(emitted[1].list) = 1

\* The calls to endpoint ep that count for its recommendation and have a
\* latency, and the sum of the latencies of the calls I.
LatencySample(recs, ep) ==
  {i \in 1..Len(recs) :
     /\ recs[i].endpoint = ep /\ recs[i].method = "GET"
     /\ recs[i].age < 24 /\ recs[i].status < 400
     /\ recs[i].latency # <<>>}

RECURSIVE LatencyTotal(_, _)
LatencyTotal(recs, I) ==
  IF I = {} THEN 0
  ELSE LET i == CHOOSE x \in I : TRUE
       IN recs[i].latency[1] + LatencyTotal(recs, I \ {i})

\* The TTL of recommendation rec is what the claim says of the mean latency
\* of its endpoint's calls (the mean is total / n milliseconds).
TTLAsClaimed(recs, rec) ==
  LET I == LatencySample(recs, rec.endpoint)
      n == Cardinality(I)
      total == LatencyTotal(recs, I)
  IN /\ n > 0
     /\ rec.ttl = 10 * (total \div (1000 * n))
     /\ rec.ttl >= 0
     /\ rec.ttl % 10 = 0
     /\ total < 1000 * n => rec.ttl = 0

\* C39: the TTL a recommendation names is 10 * floor(mean latency in ms /
\* 1000) seconds: a non-negative multiple of 10, and 0 for every endpoint
\* whose mean latency is below 1000 ms.
C39_RecommendedTTL ==
  \A r \in 1..Len(emitted) :
    emitted[r].job = "cache_recs" =>
      \A k \in 1..Len(emitted[r].list) : TTLAsClaimed(store, emitted[r].list[k])

\* The same over the stores none of whose latencies is negative.
C39_NonNegativeLatencies ==
  (\A i \in 1..Len(store) : store[i].latency = <<>> \/ store[i].latency[1] >= 0)
    => C39_RecommendedTTL

\* A run over eleven calls of 2500 ms each has recommended a TTL of 20
\* seconds.
C39_TwoSeconds ==
  /\ store = Copies(WithLatency(BaseRecord, <<2500>>), 11)
  /\ Len(emitted) = 1
  /\ Len(emitted[1].list) = 1
  /\ emitted[1].list[1].ttl = 20

\* The payload is a JSON object, and the ids of the objects among the
\* payloads ps, in their order.
IsObject(p) == p.obj /\ "null" \notin DOMAIN p

RECURSIVE ObjectsArrived(_, _)
ObjectsArrived(ps, published) ==
  IF ps = <<>> THEN <<>>
  ELSE IF IsObject(published[Head(ps).id])
       THEN <<Head(ps).id>> \o ObjectsArrived(Tail(ps), published)
       ELSE ObjectsArrived(Tail(ps), published)

\* The step takes the first payload off the subscription of connection c and
\* leaves the connection as it was but for the channel: nothing written, no
\* write begun, the handler back at its select.
DropsQuietly(c) ==
  conns' = [conns EXCEPT ![c] = [@ EXCEPT !.subq = Tail(@)]]

\* C40: a notification whose payload is not a JSON object is dropped without
\* a write and without a change of the connection, which stays Streaming;
\* the notifications written are in every state the first of the JSON
\* objects that arrived on the subscription, in their order.
C40_NonObjectDropped ==
  /\ [][\A c \in Conns :
         (SelectMsg(c) /\ ~IsObject(Head(conns[c].subq))) =>
           /\ DropsQuietly(c)
           /\ Phase(conns'[c]) = "Streaming"]_vars
  /\ [](\A c \in Conns :
          IsPrefix(EventIds(conns[c].sent), ObjectsArrived(conns[c].arrived, apiEvents)))

\* The same of the payloads on which json.Unmarshal returns an error.
C40_UndecodableDropped ==
  /\ [][\A c \in Conns :
         (SelectMsg(c) /\ ~Head(conns[c].subq).obj) =>
           /\ DropsQuietly(c)
           /\ Phase(conns'[c]) = "Streaming"]_vars
  /\ [](\A c \in Conns :
          IsPrefix(EventIds(conns[c].sent), ObjectIds(conns[c].arrived)))

\* A payload that does not decode arrived on a Streaming connection before an
\* object, and the object's notification has been written.
C40_ObjectAfterUndecodable ==
  \E c \in Conns :
    /\ Len(conns[c].arrived) = 2
    /\ ~conns[c].arrived[1].obj /\ conns[c].arrived[1].inLoop
    /\ conns[c].arrived[2].obj
    /\ EventIds(conns[c].sent) = <<2>>
    /\ conns[c].pc = "select"

====
